---- MODULE Spec2Model ----
(***************************************************************************)
(* code2flow2: the call-resolution engine (engine.py) and the Python front *)
(* end (python.py), modelled as the state machine of one map_it run.       *)
(*                                                                         *)
(* Dotted names ('os.path', 'lib.f') are sequences of identifiers          *)
(* (<<"os","path">>), so djoin is concatenation, "'.' in s" is Len(s) > 1, *)
(* s.split('.')[0] is Head(s) and s.rsplit('.', 1) is (Front, Last).       *)
(* None as an owner token is the empty sequence; the front end never       *)
(* produces the empty string as an owner.                                  *)
(***************************************************************************)
EXTENDS Integers, Sequences, FiniteSets, TLC

VARIABLES project, cfg, pc, groups, nodes, file_groups, all_nodes,
          lib_sigs, lib_groups, missing_keys, missing_group,
          bad_calls, edges, cursor, links, probe, run

vars == <<project, cfg, pc, groups, nodes, file_groups, all_nodes,
          lib_sigs, lib_groups, missing_keys, missing_group,
          bad_calls, edges, cursor, links, probe, run>>

-----------------------------------------------------------------------------
(* model.py constants, as engine.py and python.py use them *)

UNKNOWN_VAR == <<"UNKNOWN_VAR">>

UNKNOWN_MODULE == <<"UNKNOWN_MODULE">>

NoOwner == << >>

FILE == "FILE"

CLASS == "CLASS"

NAMESPACE == "NAMESPACE"

-----------------------------------------------------------------------------
(* small sequence helpers *)

Last(s) == s[Len(s)]

Front(s) == SubSeq(s, 1, Len(s) - 1)

Range(s) == {s[i] : i \in 1..Len(s)}

RECURSIVE Flatten(_)
Flatten(ss) == IF ss = << >> THEN << >> ELSE Head(ss) \o Flatten(Tail(ss))

SelectIdx(s, Test(_)) == SelectSeq([i \in 1..Len(s) |-> i], Test)

MapSeq(s, F(_)) == [i \in 1..Len(s) |-> F(s[i])]

djoin(a, b) == a \o b

EmptyMap == [x \in {} |-> << >>]

MapSet(f, k, v) == [x \in DOMAIN f \cup {k} |-> IF x = k THEN v ELSE f[x]]

(* Body applied to the value of v: v is computed once, as an assignment to  *)
(* a local variable computes its right-hand side once                       *)
With(v, Body(_)) == CHOOSE r \in {Body(x) : x \in {v}} : TRUE

-----------------------------------------------------------------------------
(* The syntax trees the front end reads.  A callee expression is one of     *)
(*   name     f            attr     b.f      (b a simple name)             *)
(*   attr2    r.x.f        (the base is itself an attribute chain on r)     *)
(*   attrcall g().f        (the base is a call of the simple name g)        *)
(*   call     g()          (the callee is itself a call of g: g()(...))     *)
(*   sub      b['key']                                                     *)
(*   callattr b.g()        (the callee is a call of the attribute b.g:      *)
(*                          b.g()(...))                                     *)

NameE(id) == [k |-> "name", id |-> id, attr |-> "", key |-> ""]

AttrE(base, attr) == [k |-> "attr", id |-> base, attr |-> attr, key |-> ""]

Attr2E(root, attr) == [k |-> "attr2", id |-> root, attr |-> attr, key |-> ""]

AttrCallE(inner, attr) == [k |-> "attrcall", id |-> inner, attr |-> attr, key |-> ""]

CallE(inner) == [k |-> "call", id |-> inner, attr |-> "", key |-> ""]

SubE(base, key) == [k |-> "sub", id |-> base, attr |-> "", key |-> key]

CallAttrE(base, attr) == [k |-> "callattr", id |-> base, attr |-> attr, key |-> ""]

NoFunc == [k |-> "none", id |-> "", attr |-> "", key |-> ""]

(* statements: an expression statement that is a call, an assignment of a   *)
(* call, an assignment of a dict literal, an import, pass, a return         *)

ExprS(line, func, args) ==
    [s |-> "expr", line |-> line, func |-> func, args |-> args, target |-> "",
     map |-> EmptyMap, name |-> << >>, asname |-> "", module |-> << >>, ret |-> ""]

AssignS(line, target, func) ==
    [s |-> "assign", line |-> line, func |-> func, args |-> << >>, target |-> target,
     map |-> EmptyMap, name |-> << >>, asname |-> "", module |-> << >>, ret |-> ""]

DictS(line, target, map) ==
    [s |-> "dict", line |-> line, func |-> NoFunc, args |-> << >>, target |-> target,
     map |-> map, name |-> << >>, asname |-> "", module |-> << >>, ret |-> ""]

ImportS(line, name, asname) ==
    [s |-> "import", line |-> line, func |-> NoFunc, args |-> << >>, target |-> "",
     map |-> EmptyMap, name |-> name, asname |-> asname, module |-> << >>, ret |-> ""]

ImportFromS(line, module, name, asname) ==
    [s |-> "importfrom", line |-> line, func |-> NoFunc, args |-> << >>, target |-> "",
     map |-> EmptyMap, name |-> name, asname |-> asname, module |-> module, ret |-> ""]

PassS(line) ==
    [s |-> "pass", line |-> line, func |-> NoFunc, args |-> << >>, target |-> "",
     map |-> EmptyMap, name |-> << >>, asname |-> "", module |-> << >>, ret |-> ""]

(* return <name> (ret = "name", target the name), return lambda: ...        *)
(* (ret = "lambda"), any other return (ret = "other")                       *)
ReturnS(line, ret, id) ==
    [s |-> "return", line |-> line, func |-> NoFunc, args |-> << >>, target |-> id,
     map |-> EmptyMap, name |-> << >>, asname |-> "", module |-> << >>, ret |-> ret]

(* a line that ast.parse rejects with a SyntaxError *)
SyntaxErrorS(line) ==
    [s |-> "syntax_error", line |-> line, func |-> NoFunc, args |-> << >>, target |-> "",
     map |-> EmptyMap, name |-> << >>, asname |-> "", module |-> << >>, ret |-> ""]

FuncDef(name, line, params, body) ==
    [name |-> name, line |-> line, params |-> params, body |-> body]

ClassDef(name, line, bases, methods, nested) ==
    [name |-> name, line |-> line, bases |-> bases, methods |-> methods, nested |-> nested]

(* stmts are the module-level statements in source order *)
FileDef(token, stmts, funcs, classes) ==
    [token |-> token, stmts |-> stmts, funcs |-> funcs, classes |-> classes]

-----------------------------------------------------------------------------
(* model.py entities *)

MkCall(token, line, owner, is_library, args) ==
    [token |-> token, owner |-> owner, line |-> line, is_library |-> is_library,
     arg_tokens |-> args, via_super |-> FALSE, via_factory |-> FALSE,
     indirect |-> << >>, factory_call |-> ""]

MkVar(token, kind, v, line) == [token |-> token, kind |-> kind, v |-> v, line |-> line]

(* Python's None as a points_to *)
NoneValue == [kind |-> "none", v |-> 0]

(* a constructor that tests the truth of points_to *)
Variable_rejects_falsy(token, points_to, line_number) ==
    IF token = << >> THEN [error |-> "ValueError", made |-> << >>]
    ELSE IF \/ points_to.kind = "none"
            \/ points_to.kind = "dict" /\ DOMAIN points_to.v = {}
            \/ points_to.kind = "int" /\ points_to.v = 0
            \/ points_to.kind = "str" /\ points_to.v = << >>
    THEN [error |-> "ValueError", made |-> << >>]
    ELSE [error |-> "", made |-> <<MkVar(token, points_to.kind, points_to.v, line_number)>>]

(* model.py: Variable.__init__.  A token is the sequence of its dotted      *)
(* parts, the empty string the empty sequence                               *)
Variable(token, points_to, line_number) ==
    IF token = << >> THEN [error |-> "ValueError", made |-> << >>]
    ELSE IF points_to.kind = "none" THEN [error |-> "ValueError", made |-> << >>]
    ELSE [error |-> "", made |-> <<MkVar(token, points_to.kind, points_to.v, line_number)>>]

MkNode(token, calls, variables, parent, import_tokens, line, is_constructor,
       is_library, missing, implicit) ==
    [token |-> token, calls |-> calls, variables |-> variables, parent |-> parent,
     import_tokens |-> import_tokens, line |-> line,
     is_constructor |-> is_constructor, is_library |-> is_library,
     missing |-> missing, implicit |-> implicit,
     return_tokens |-> << >>, returns_lambda |-> FALSE, param_tokens |-> << >>]

MkGroup(token, gtype, display, import_tokens, parent, inherits) ==
    [token |-> token, gtype |-> gtype, display |-> display,
     import_tokens |-> import_tokens, parent |-> parent, inherits |-> inherits,
     nodes |-> << >>, subgroups |-> << >>, root |-> 0, module_scope |-> EmptyMap]

is_attr(call) == call.owner # NoOwner

to_string(call) == IF call.owner # NoOwner THEN djoin(call.owner, <<call.token>>)
                   ELSE <<call.token>>

-----------------------------------------------------------------------------
(* python.py: the scope stack and the call extractor *)

ScopeIdx(stack, name) == {i \in 1..Len(stack) : name \in DOMAIN stack[i]}

MaxOf(S) == CHOOSE m \in S : \A x \in S : x <= m

ScopeBind(stack, name, val) ==
    [stack EXCEPT ![Len(stack)] = MapSet(@, name, val)]

StrV(d) == [t |-> "str", v |-> d]

DictV(m) == [t |-> "dict", v |-> m]

(* the arguments of a call: a name, an attribute chain, anything else *)
NameA(id) == [k |-> "name", id |-> id, attr |-> ""]

AttrA(base, attr) == [k |-> "attr", id |-> base, attr |-> attr]

ConstA == [k |-> "const", id |-> "", attr |-> ""]

(* lines 19-38: the names among the positional arguments, in order.  Of an  *)
(* attribute chain only the root name is kept: getattr(val, 'attr', val.id) *)
(* evaluates val.id first, which raises on an ast.Attribute, and the        *)
(* except clause drops that part                                            *)
ArgTokens(args) ==
    MapSeq(SelectSeq(args, LAMBDA arg : arg.k \in {"name", "attr"}),
           LAMBDA arg : arg.id)

get_call_from_func_element(func, stack, line, args) ==
    LET arg_tokens == ArgTokens(args) IN
    CASE func.k = "attr" ->
           LET hit == ScopeIdx(stack, func.id)
               owner == IF hit = {} THEN UNKNOWN_VAR
                        ELSE LET val == stack[MaxOf(hit)][func.id]
                             IN IF val.t = "str" THEN val.v ELSE <<func.id>>
           IN << MkCall(func.attr, line, owner,
                        owner # NoOwner /\ owner # UNKNOWN_VAR, arg_tokens) >>
      [] func.k = "attr2" ->
           \* lines 57-71: the walk keeps the root name only (val.id raises on
           \* every ast.Attribute of the chain before its attr is read)
           << MkCall(func.attr, line, <<func.id>>, <<func.id>> # UNKNOWN_VAR, arg_tokens) >>
      [] func.k = "attrcall" ->
           << MkCall(func.attr, line, UNKNOWN_VAR, FALSE, arg_tokens) >>
      [] func.k = "name" ->
           LET hit == ScopeIdx(stack, func.id)
               val == stack[MaxOf(hit)][func.id]
           IN IF hit # {} /\ val.t = "str" /\ Len(val.v) > 1
              THEN << MkCall(Last(val.v), line, Front(val.v), TRUE, arg_tokens) >>
              ELSE << MkCall(func.id, line, NoOwner, FALSE, arg_tokens) >>
      [] func.k = "sub" ->
           LET hit == {i \in ScopeIdx(stack, func.id) :
                         /\ stack[i][func.id].t = "dict"
                         /\ func.key \in DOMAIN stack[i][func.id].v}
           IN IF hit = {} THEN << >>
              ELSE << [MkCall(stack[MaxOf(hit)][func.id].v[func.key], line,
                              NoOwner, FALSE, arg_tokens)
                       EXCEPT !.indirect = <<"dict", func.id, func.key>>] >>
      [] func.k = "call" ->
           << [MkCall(func.id, line, NoOwner, FALSE, arg_tokens)
               EXCEPT !.factory_call = func.id] >>
      [] func.k = "callattr" ->
           << [MkCall(func.attr, line, NoOwner, FALSE, arg_tokens)
               EXCEPT !.factory_call = func.attr] >>
      [] OTHER -> << >>

(* the calls of one statement, in ast.walk (breadth-first) order: the outer *)
(* call, then the call inside its callee                                    *)
StmtCalls(st, stack) ==
    IF st.s \notin {"expr", "assign"} THEN << >>
    ELSE get_call_from_func_element(st.func, stack, st.line, st.args)
         \o (IF st.func.k \in {"attrcall", "call"}
             THEN get_call_from_func_element(NameE(st.func.id), stack, st.line, << >>)
             ELSE IF st.func.k = "callattr"
             THEN get_call_from_func_element(AttrE(st.func.id, st.func.attr), stack,
                                             st.line, << >>)
             ELSE << >>)

make_calls(lines, stack) == Flatten([i \in 1..Len(lines) |-> StmtCalls(lines[i], stack)])

process_assign(st, acc) ==
    IF st.s = "assign"
    THEN LET call == get_call_from_func_element(st.func, acc.stack, st.line, << >>)
         IN IF call = << >> THEN acc
            ELSE [vars |-> Append(acc.vars, MkVar(<<st.target>>, "call", call[1], st.line)),
                  stack |-> IF st.func.k = "name"
                            THEN ScopeBind(acc.stack, st.target, StrV(<<st.func.id>>))
                            ELSE acc.stack]
    ELSE [vars |-> Append(acc.vars, MkVar(<<st.target>>, "dict", st.map, st.line)),
          stack |-> ScopeBind(acc.stack, st.target, DictV(st.map))]

(* a dotted name imported without an alias ('import os.path') is bound     *)
(* under a key no identifier equals, so no lookup ever finds it             *)
process_import(st, acc) ==
    LET token == IF st.asname # "" THEN <<st.asname>> ELSE st.name
        rhs == IF st.s = "importfrom" /\ st.module # << >>
               THEN djoin(st.module, st.name) ELSE st.name
    IN [vars |-> Append(acc.vars, MkVar(token, "str", rhs, st.line)),
        stack |-> IF Len(token) = 1 THEN ScopeBind(acc.stack, token[1], StrV(rhs))
                  ELSE acc.stack]

RECURSIVE WalkLocals(_, _, _)
WalkLocals(lines, i, acc) ==
    IF i > Len(lines) THEN acc
    ELSE WalkLocals(lines, i + 1,
           CASE lines[i].s \in {"assign", "dict"} -> process_assign(lines[i], acc)
             [] lines[i].s \in {"import", "importfrom"} -> process_import(lines[i], acc)
             [] OTHER -> acc)

make_local_variables(lines, parentGid, parentType, stack) ==
    With(WalkLocals(lines, 1, [vars |-> << >>, stack |-> stack]), LAMBDA w :
       IF parentType = CLASS
       THEN [vars |-> Append(w.vars, MkVar(<<"self">>, "group", parentGid, lines[1].line)),
             stack |-> IF "self" \in DOMAIN w.stack[Len(w.stack)] THEN w.stack
                       ELSE ScopeBind(w.stack, "self", StrV(<<"self">>))]
       ELSE w)

-----------------------------------------------------------------------------
(* python.py and engine.py: building the Group tree of one file.  Groups    *)
(* and nodes live in two arenas (sequences); an object is its index.        *)

add_node(W, gid, node, is_root) ==
    LET nid == Len(W.nodes) + 1
    IN [groups |-> [W.groups EXCEPT ![gid].nodes = Append(@, nid),
                                    ![gid].root = IF is_root THEN nid ELSE @],
        nodes |-> Append(W.nodes, node)]

add_subgroup(W, gid, sub) == [W EXCEPT !.groups[gid].subgroups = Append(@, sub)]

new_group(W, group) == [W EXCEPT !.groups = Append(@, group)]

make_nodes(W, tree, parent) ==
    LET pg == W.groups[parent]
        module_scope == IF pg.gtype = FILE THEN pg.module_scope
                        ELSE IF pg.gtype = CLASS THEN W.groups[pg.parent].module_scope
                        ELSE EmptyMap
        param_vars == [i \in 1..Len(tree.params) |->
                         MkVar(<<tree.params[i]>>, "str", UNKNOWN_VAR, tree.line)]
        rets == SelectSeq(tree.body, LAMBDA st : st.s = "return")
    IN With(make_local_variables(tree.body, parent, pg.gtype, <<module_scope, EmptyMap>>),
            LAMBDA loc :
         [MkNode(tree.name, make_calls(tree.body, loc.stack),
                 param_vars \o loc.vars, parent,
                 IF pg.gtype = FILE THEN << <<pg.token, tree.name>> >> ELSE << >>,
                 tree.line,
                 pg.gtype = CLASS /\ tree.name \in {"__init__", "__new__"},
                 FALSE, FALSE, FALSE)
          EXCEPT
            !.return_tokens = MapSeq(SelectSeq(rets, LAMBDA st : st.ret = "name"),
                                     LAMBDA st : st.target),
            !.returns_lambda = \E i \in 1..Len(rets) : rets[i].ret = "lambda",
            !.param_tokens = tree.params])

make_import_module_nodes(W, st, parent) ==
    MkNode(st.name[1], << >>, << >>, parent,
           IF W.groups[parent].gtype = FILE
           THEN << <<W.groups[parent].token, st.name[1]>> >> ELSE << >>,
           st.line, FALSE, TRUE, FALSE, FALSE)

make_root_node(W, lines, parent) ==
    With(make_local_variables(lines, parent, W.groups[parent].gtype, <<EmptyMap>>),
         LAMBDA loc :
       add_node([W EXCEPT !.groups[parent].module_scope = loc.stack[1]], parent,
                MkNode("(global)", make_calls(lines, loc.stack), loc.vars, parent,
                       << >>, 0, FALSE, FALSE, FALSE, FALSE),
                TRUE))

RECURSIVE AddNodes(_, _, _, _)
AddNodes(W, gid, trees, i) ==
    IF i > Len(trees) THEN W
    ELSE AddNodes(add_node(W, gid, make_nodes(W, trees[i], gid), FALSE), gid, trees, i + 1)

RECURSIVE make_class_group(_, _, _)
RECURSIVE AddClasses(_, _, _, _)
make_class_group(W, tree, parent) ==
    LET gid == Len(W.groups) + 1
        W1 == new_group(W, MkGroup(tree.name, CLASS, "Class",
                                   << <<W.groups[parent].token, tree.name>> >>,
                                   parent, tree.bases))
        W2 == AddNodes(W1, gid, tree.methods, 1)
    IN AddClasses(W2, gid, tree.nested, 1)

AddClasses(W, gid, trees, i) ==
    IF i > Len(trees) THEN W
    ELSE LET sub == Len(W.groups) + 1
         IN AddClasses(add_subgroup(make_class_group(W, trees[i], gid), gid, sub),
                       gid, trees, i + 1)

RECURSIVE AddImportNodes(_, _, _, _)
AddImportNodes(W, gid, imports, i) ==
    IF i > Len(imports) THEN W
    ELSE AddImportNodes(add_node(W, gid, make_import_module_nodes(W, imports[i], gid), FALSE),
                        gid, imports, i + 1)

(* separate_namespaces: the module-level statements are split into the     *)
(* plain imports (ast.Import) and the rest (the body); the root node reads  *)
(* the body first and the imports after it                                  *)
make_file_group(W, tree) ==
    LET gid == Len(W.groups) + 1
        import_tree == SelectSeq(tree.stmts, LAMBDA st : st.s = "import")
        body_trees == SelectSeq(tree.stmts, LAMBDA st : st.s # "import")
        W1 == new_group(W, MkGroup(tree.token, FILE, "File", << <<tree.token>> >>, 0, << >>))
        W2 == make_root_node(W1, body_trees \o import_tree, gid)
        W3 == AddNodes(W2, gid, tree.funcs, 1)
        W4 == AddClasses(W3, gid, tree.classes, 1)
    IN AddImportNodes(W4, gid, import_tree, 1)

-----------------------------------------------------------------------------
(* model.py: Group and Node queries (G is the group arena, N the node one)  *)

RECURSIVE group_all_nodes(_, _)
group_all_nodes(G, gid) ==
    G[gid].nodes \o Flatten([i \in 1..Len(G[gid].subgroups) |->
                                group_all_nodes(G, G[gid].subgroups[i])])

RECURSIVE all_groups(_, _)
all_groups(G, gid) ==
    <<gid>> \o Flatten([i \in 1..Len(G[gid].subgroups) |->
                          all_groups(G, G[gid].subgroups[i])])

get_constructor(G, N, gid) ==
    LET cs == SelectSeq(G[gid].nodes, LAMBDA n : N[n].is_constructor)
    IN IF cs = << >> THEN 0 ELSE cs[1]

RECURSIVE top_group(_, _)
top_group(G, gid) == IF G[gid].parent = 0 THEN gid ELSE top_group(G, G[gid].parent)

node_file_group(G, N, nid) == top_group(G, N[nid].parent)

RemoveAll(seq, x) == SelectSeq(seq, LAMBDA y : y # x)

node_remove_from_parent(G, N, nid) ==
    [G EXCEPT ![N[nid].parent].nodes = RemoveAll(@, nid)]

group_remove_from_parent(G, gid) ==
    IF G[gid].parent = 0 THEN G
    ELSE [G EXCEPT ![G[gid].parent].subgroups = RemoveAll(@, gid)]

(* a stable sort of variables by line number, latest first *)
RECURSIVE SortDesc(_)
SortDesc(vs) ==
    IF vs = << >> THEN << >>
    ELSE LET m == MaxOf({vs[i].line : i \in 1..Len(vs)})
         IN SelectSeq(vs, LAMBDA v : v.line = m)
            \o SortDesc(SelectSeq(vs, LAMBDA v : v.line # m))

RECURSIVE outer_variables(_, _, _)
outer_variables(G, N, gid) ==
    IF gid = 0 THEN << >>
    ELSE (IF G[gid].root # 0 THEN SortDesc(N[G[gid].root].variables) ELSE << >>)
         \o outer_variables(G, N, G[gid].parent)

get_variables(G, N, nid, line) ==
    SortDesc(SelectSeq(N[nid].variables, LAMBDA v : v.line <= line))
    \o outer_variables(G, N, N[nid].parent)

(* the outcome of Call.matches_variable: no match, a node, or the unknown-  *)
(* module sentinel                                                           *)
NoMatch == [m |-> "none", node |-> 0]

matches_variable(G, N, call, var) ==
    IF is_attr(call)
    THEN IF call.owner # var.token THEN NoMatch
         ELSE IF var.kind = "group"
              THEN LET own == SelectSeq(G[var.v].nodes, LAMBDA n : N[n].token = call.token)
                       inh == SelectSeq(Flatten(G[var.v].inherits),
                                        LAMBDA n : N[n].token = call.token)
                   IN IF own # << >> THEN [m |-> "node", node |-> own[1]]
                      ELSE IF inh # << >> THEN [m |-> "node", node |-> inh[1]]
                      ELSE NoMatch
              ELSE IF var.kind = "str" /\ var.v = UNKNOWN_MODULE
                   THEN [m |-> "unknown_module", node |-> 0]
                   ELSE NoMatch
    ELSE IF <<call.token>> # var.token THEN NoMatch
         ELSE IF var.kind = "node" THEN [m |-> "node", node |-> var.v]
              ELSE IF /\ var.kind = "group"
                      /\ G[var.v].gtype = CLASS
                      /\ get_constructor(G, N, var.v) # 0
                   THEN [m |-> "node", node |-> get_constructor(G, N, var.v)]
              ELSE IF var.kind = "str" /\ var.v = UNKNOWN_MODULE
                   THEN [m |-> "unknown_module", node |-> 0]
                   ELSE NoMatch

(* Node.resolve_variables: a provisional string becomes the first node or   *)
(* group whose import tokens hold it, else the unknown-module sentinel; a   *)
(* bare constructor call becomes the class group of that name               *)
resolve_str(G, N, fgs, d) ==
    LET cand == Flatten([i \in 1..Len(fgs) |->
                   MapSeq(SelectSeq(group_all_nodes(G, fgs[i]),
                                    LAMBDA n : \E j \in 1..Len(N[n].import_tokens) :
                                                  N[n].import_tokens[j] = d),
                          LAMBDA n : [kind |-> "node", v |-> n])
                   \o MapSeq(SelectSeq(all_groups(G, fgs[i]),
                                       LAMBDA g : \E j \in 1..Len(G[g].import_tokens) :
                                                     G[g].import_tokens[j] = d),
                             LAMBDA g : [kind |-> "group", v |-> g])])
    IN With(cand, LAMBDA c :
         IF c = << >> THEN [kind |-> "str", v |-> UNKNOWN_MODULE] ELSE c[1])

resolve_variable(G, N, fgs, var) ==
    IF var.kind = "str" /\ var.v # UNKNOWN_VAR
    THEN With(resolve_str(G, N, fgs, var.v),
              LAMBDA r : [var EXCEPT !.kind = r.kind, !.v = r.v])
    ELSE IF var.kind = "call" /\ ~is_attr(var.v)
    THEN With(SelectSeq(Flatten([i \in 1..Len(fgs) |-> all_groups(G, fgs[i])]),
                        LAMBDA g : G[g].token = var.v.token),
              LAMBDA gs : IF gs = << >> THEN var
                          ELSE [var EXCEPT !.kind = "group", !.v = Last(gs)])
    ELSE var

-----------------------------------------------------------------------------
(* engine.py: the resolution engine.  AN is the node list handed to         *)
(* _find_link_for_call, a the calling node.  Every strategy yields a        *)
(* verdict: hit = FALSE when it falls through to the next strategy.         *)

Pass == [hit |-> FALSE, strat |-> "none", node |-> 0, bad |-> FALSE, cands |-> << >>,
         via_super |-> FALSE, via_factory |-> FALSE,
         synth |-> "none", sparent |-> 0, stoken |-> ""]

Resolved(strat, nid) == [Pass EXCEPT !.hit = TRUE, !.strat = strat, !.node = nid]

Ambiguous(strat, cands) == [Pass EXCEPT !.hit = TRUE, !.strat = strat, !.bad = TRUE,
                                        !.cands = cands]

Terminated(strat) == [Pass EXCEPT !.hit = TRUE, !.strat = strat]

Synthesized(strat, kind, parent, token) ==
    [Pass EXCEPT !.hit = TRUE, !.strat = strat, !.synth = kind, !.sparent = parent,
                 !.stoken = token]

(* a variant that settles for the first of several candidates and still     *)
(* signals the ambiguity                                                    *)
OneOrMany_first_candidate(strat, cands) ==
    IF Len(cands) = 1 THEN Resolved(strat, cands[1])
    ELSE [Ambiguous(strat, cands) EXCEPT !.node = cands[1]]

OneOrMany(strat, cands) ==
    IF Len(cands) = 1 THEN Resolved(strat, cands[1]) ELSE Ambiguous(strat, cands)

InheritCands(G, N, gid, token) ==
    SelectSeq(Flatten(G[gid].inherits), LAMBDA n : N[n].token = token)

InClass(G, N, a) == N[a].parent # 0 /\ G[N[a].parent].gtype = CLASS

_find_library_node_by_signature(G, N, AN, call) ==
    IF ~(call.is_library /\ is_attr(call)) THEN 0
    ELSE LET lib_signature == djoin(call.owner, <<call.token>>)
             module_name == Head(call.owner)
             Fits(n) == \/ \E j \in 1..Len(N[n].import_tokens) :
                              N[n].import_tokens[j] = lib_signature
                        \/ G[N[n].parent].token = module_name
         IN With(SelectSeq(AN, LAMBDA n : N[n].token = call.token /\ Fits(n)),
                 LAMBDA concrete :
            With(SelectSeq(AN, LAMBDA n : /\ N[n].is_library
                                          /\ N[n].token = call.token
                                          /\ Fits(n)),
                 LAMBDA synthesized :
              IF concrete # << >> THEN concrete[1]
              ELSE IF synthesized # << >> THEN synthesized[1]
              ELSE 0))

_find_library_node_from_variable(G, N, AN, call, var) ==
    IF ~(is_attr(call) /\ call.owner = var.token) THEN 0
    ELSE IF var.kind # "call" THEN 0
    ELSE IF ~(var.v.is_library /\ is_attr(var.v)) THEN 0
    ELSE With(SelectSeq(AN, LAMBDA n : /\ N[n].token = call.token
                                       /\ N[n].is_library
                                       /\ G[N[n].parent].token = Head(var.v.owner)),
              LAMBDA found : IF found = << >> THEN 0 ELSE found[1])

(* 1. super() dispatch, lines 600-621 *)
StratSuper(G, N, AN, heur, call, a) ==
    IF ~(heur /\ is_attr(call) /\ call.owner = <<"super">> /\ InClass(G, N, a)) THEN Pass
    ELSE With(InheritCands(G, N, N[a].parent, call.token), LAMBDA cands :
            IF cands = << >> THEN Pass
            ELSE IF Len(cands) = 1
                 THEN [Resolved("super", cands[1]) EXCEPT !.via_super = TRUE]
                 ELSE Ambiguous("super", cands))

(* a variant of the self dispatch that ignores the heuristics switch *)
StratSelf_ungated(G, N, AN, heur, call, a) ==
    IF ~(is_attr(call) /\ call.owner = <<"self">> /\ InClass(G, N, a)) THEN Pass
    ELSE With(N[a].parent, LAMBDA pg :
         With(SelectSeq(G[pg].nodes, LAMBDA n : N[n].token = call.token), LAMBDA own :
         With(SelectSeq(G[pg].subgroups, LAMBDA g : G[g].token = call.token),
              LAMBDA nested :
         With(InheritCands(G, N, pg, call.token), LAMBDA cands :
            IF own # << >> THEN OneOrMany("self", own)
            ELSE IF nested # << >>
                 THEN IF get_constructor(G, N, nested[1]) # 0
                      THEN Resolved("self", get_constructor(G, N, nested[1]))
                      ELSE Synthesized("self", "ctor", nested[1], "__init__")
            ELSE IF cands # << >> THEN OneOrMany("self", cands)
            ELSE Pass))))

(* 2. self dispatch, lines 624-678 *)
(* a variant that looks at the inherited methods before the nested classes *)
StratSelf_inherited_first(G, N, AN, heur, call, a) ==
    IF ~(heur /\ is_attr(call) /\ call.owner = <<"self">> /\ InClass(G, N, a)) THEN Pass
    ELSE With(N[a].parent, LAMBDA pg :
         With(SelectSeq(G[pg].nodes, LAMBDA n : N[n].token = call.token), LAMBDA own :
         With(SelectSeq(G[pg].subgroups, LAMBDA g : G[g].token = call.token),
              LAMBDA nested :
         With(InheritCands(G, N, pg, call.token), LAMBDA cands :
            IF own # << >> THEN OneOrMany("self", own)
            ELSE IF cands # << >> THEN OneOrMany("self", cands)
            ELSE IF nested # << >>
                 THEN IF get_constructor(G, N, nested[1]) # 0
                      THEN Resolved("self", get_constructor(G, N, nested[1]))
                      ELSE Synthesized("self", "ctor", nested[1], "__init__")
            ELSE Pass))))

StratSelf(G, N, AN, heur, call, a) ==
    IF ~(heur /\ is_attr(call) /\ call.owner = <<"self">> /\ InClass(G, N, a)) THEN Pass
    ELSE With(N[a].parent, LAMBDA pg :
         With(SelectSeq(G[pg].nodes, LAMBDA n : N[n].token = call.token), LAMBDA own :
         With(SelectSeq(G[pg].subgroups, LAMBDA g : G[g].token = call.token),
              LAMBDA nested :
         With(InheritCands(G, N, pg, call.token), LAMBDA cands :
            IF own # << >> THEN OneOrMany("self", own)
            ELSE IF nested # << >>
                 THEN IF get_constructor(G, N, nested[1]) # 0
                      THEN Resolved("self", get_constructor(G, N, nested[1]))
                      ELSE Synthesized("self", "ctor", nested[1], "__init__")
            ELSE IF cands # << >> THEN OneOrMany("self", cands)
            ELSE Pass))))

(* 4. direct library signature, lines 680-683 *)
StratLibSignature(G, N, AN, heur, call, a) ==
    With(_find_library_node_by_signature(G, N, AN, call), LAMBDA lib_node :
       IF lib_node # 0 THEN Resolved("lib_signature", lib_node) ELSE Pass)

(* 3. unknown owner with super() in the same body, lines 693-713 *)
StratUnknownSuper(G, N, AN, heur, call, a) ==
    IF ~(/\ heur
         /\ is_attr(call)
         /\ call.owner = UNKNOWN_VAR
         /\ InClass(G, N, a)) THEN Pass
    ELSE LET has_super == \E i \in 1..Len(N[a].calls) :
                             \/ N[a].calls[i].token = "super"
                             \/ N[a].calls[i].owner = <<"super">>
         IN With(InheritCands(G, N, N[a].parent, call.token), LAMBDA cands :
              IF cands = << >> \/ ~has_super THEN Pass
              ELSE IF Len(cands) = 1
                   THEN [Resolved("unknown_super", cands[1]) EXCEPT !.via_super = TRUE]
                   ELSE Ambiguous("unknown_super", cands))

(* 5. instance-variable library dispatch, lines 717-725 *)
StratInstanceLib(G, N, AN, heur, call, a) ==
    IF ~is_attr(call) THEN Pass
    ELSE With(SelectSeq(get_variables(G, N, a, call.line), LAMBDA v :
                 /\ call.owner = v.token
                 /\ _find_library_node_from_variable(G, N, AN, call, v) # 0),
              LAMBDA found :
                IF found = << >> THEN Pass
                ELSE Resolved("instance_lib",
                       _find_library_node_from_variable(G, N, AN, call, found[1])))

(* a variant that passes over a variable bound to the unknown module and   *)
(* goes on to the next one                                                  *)
StratVariable_skips_unknown_module(G, N, AN, heur, call, a) ==
    With(SelectSeq(get_variables(G, N, a, call.line),
                   LAMBDA v : matches_variable(G, N, call, v).m = "node"),
         LAMBDA found :
           IF found = << >> THEN Pass
           ELSE With(matches_variable(G, N, call, found[1]), LAMBDA var_match :
                With(_find_library_node_by_signature(G, N, AN, call), LAMBDA lib_node :
                  IF lib_node # 0 THEN Resolved("variable", lib_node)
                  ELSE Resolved("variable", var_match.node))))

(* 6. general variable matching, lines 727-742 *)
StratVariable(G, N, AN, heur, call, a) ==
    With(SelectSeq(get_variables(G, N, a, call.line),
                   LAMBDA v : matches_variable(G, N, call, v).m # "none"),
         LAMBDA found :
           IF found = << >> THEN Pass
           ELSE With(matches_variable(G, N, call, found[1]), LAMBDA var_match :
                With(_find_library_node_by_signature(G, N, AN, call), LAMBDA lib_node :
                  IF var_match.m = "unknown_module" THEN Terminated("variable")
                  ELSE IF lib_node # 0 THEN Resolved("variable", lib_node)
                  ELSE Resolved("variable", var_match.node))))

(* the factory node of a call, lines 754-756: a file-level function first *)
FactoryNode(G, N, AN, call) ==
    With(SelectSeq(AN, LAMBDA n : N[n].token = call.factory_call), LAMBDA factory_nodes :
      With(SelectSeq(factory_nodes, LAMBDA n : G[N[n].parent].gtype = FILE),
           LAMBDA at_file :
             IF factory_nodes = << >> THEN 0
             ELSE IF at_file # << >> THEN at_file[1] ELSE factory_nodes[1]))

(* 7. factory return, lines 744-786 *)
StratFactory(G, N, AN, heur, call, a) ==
    IF call.factory_call = "" THEN Pass
    ELSE With(FactoryNode(G, N, AN, call), LAMBDA factory_node :
      IF factory_node = 0 THEN Pass
      ELSE With(SelectSeq(N[factory_node].return_tokens,
                          LAMBDA rt : \E i \in 1..Len(AN) : N[AN[i]].token = rt),
                LAMBDA targets :
        IF targets # << >>
        THEN [Resolved("factory",
                       SelectSeq(AN, LAMBDA n : N[n].token = targets[1])[1])
              EXCEPT !.via_factory = TRUE]
        ELSE IF N[factory_node].returns_lambda
        THEN [Synthesized("factory", "lambda", N[factory_node].parent,
                          N[factory_node].token \o "::<lambda>")
              EXCEPT !.via_factory = TRUE]
        ELSE Pass))

(* a variant that takes every function at file level for a candidate of a   *)
(* bare call, whatever its name                                             *)
PossibleNodes_any_name(G, N, AN, call, a) ==
    With(node_file_group(G, N, a), LAMBDA node_a_file_group :
      IF is_attr(call)
      THEN SelectSeq(AN, LAMBDA n : /\ call.token = N[n].token
                                    /\ N[n].parent # node_a_file_group)
      ELSE SelectSeq(AN, LAMBDA n :
              \/ G[N[n].parent].gtype = FILE
              \/ call.token = G[N[n].parent].token /\ N[n].is_constructor))

(* lines 790-811: the candidates of direct name matching *)
PossibleNodes(G, N, AN, call, a) ==
    With(node_file_group(G, N, a), LAMBDA node_a_file_group :
      IF is_attr(call)
      THEN SelectSeq(AN, LAMBDA n : /\ call.token = N[n].token
                                    /\ N[n].parent # node_a_file_group)
      ELSE SelectSeq(AN, LAMBDA n :
              \/ call.token = N[n].token /\ G[N[n].parent].gtype = FILE
              \/ call.token = G[N[n].parent].token /\ N[n].is_constructor))

(* 8. direct name matching, lines 788-841 *)
StratDirect(G, N, AN, heur, call, a) ==
    With(PossibleNodes(G, N, AN, call, a), LAMBDA possible_nodes :
      IF possible_nodes # << >> THEN OneOrMany("direct", possible_nodes)
      ELSE With(SelectSeq(AN, LAMBDA n : /\ G[N[n].parent].gtype = CLASS
                                         /\ G[N[n].parent].token = call.token),
                LAMBDA in_class :
        IF in_class = << >> THEN Pass
        ELSE With(get_constructor(G, N, N[in_class[1]].parent), LAMBDA ctor :
          IF ctor # 0 THEN Resolved("direct", ctor)
          ELSE Synthesized("direct", "ctor", N[in_class[1]].parent, "__init__"))))

(* the first strategy of a list that does not fall through *)
FirstHit(verdicts) ==
    With(SelectSeq(verdicts, LAMBDA v : v.hit),
         LAMBDA hits : IF hits = << >> THEN Pass ELSE hits[1])

(* a variant that matches variables before it looks for a library signature *)
Strategies_variable_first(G, N, AN, heur, call, a) ==
    << StratSuper(G, N, AN, heur, call, a),
       StratSelf(G, N, AN, heur, call, a),
       StratUnknownSuper(G, N, AN, heur, call, a),
       StratInstanceLib(G, N, AN, heur, call, a),
       StratVariable(G, N, AN, heur, call, a),
       StratLibSignature(G, N, AN, heur, call, a),
       StratFactory(G, N, AN, heur, call, a),
       StratDirect(G, N, AN, heur, call, a) >>

(* lines 600-841: the verdict of every strategy, in the order of the code *)
Strategies(G, N, AN, heur, call, a) ==
    << StratSuper(G, N, AN, heur, call, a),
       StratSelf(G, N, AN, heur, call, a),
       StratLibSignature(G, N, AN, heur, call, a),
       StratUnknownSuper(G, N, AN, heur, call, a),
       StratInstanceLib(G, N, AN, heur, call, a),
       StratVariable(G, N, AN, heur, call, a),
       StratFactory(G, N, AN, heur, call, a),
       StratDirect(G, N, AN, heur, call, a) >>

(* lines 570-841: the first strategy that returns decides *)
_find_link_for_call(G, N, AN, heur, call, a) ==
    FirstHit(Strategies(G, N, AN, heur, call, a))

-----------------------------------------------------------------------------
(* engine.py: map_it, steps 1 and 2 (parsing).  The files of the project    *)
(* lie in one directory; resolve_import_path finds a module there when a    *)
(* file of that name exists.                                                *)

DiskIdx(files, d) ==
    IF Len(d) # 1 THEN 0
    ELSE LET hit == {i \in 1..Len(files) : files[i].token = d[1]}
         IN IF hit = {} THEN 0 ELSE CHOOSE i \in hit : TRUE

resolve_import_path(files, st) ==
    IF st.s = "import" THEN DiskIdx(files, st.name)
    ELSE IF st.module # << >> /\ DiskIdx(files, st.module) # 0
         THEN DiskIdx(files, st.module)
         ELSE DiskIdx(files, st.name)

(* the import statements of a file in ast.walk order: module level, then    *)
(* function bodies, then method bodies, then methods of nested classes      *)
Bodies(defs) == Flatten([i \in 1..Len(defs) |-> defs[i].body])

WalkImports(file) ==
    SelectSeq(file.stmts
              \o Bodies(file.funcs)
              \o Flatten([i \in 1..Len(file.classes) |-> Bodies(file.classes[i].methods)])
              \o Flatten([i \in 1..Len(file.classes) |->
                    Flatten([j \in 1..Len(file.classes[i].nested) |->
                               Bodies(file.classes[i].nested[j].methods)])]),
              LAMBDA st : st.s \in {"import", "importfrom"})

(* ast.parse(f.read()) raises for the file *)
Malformed(file) == \E i \in 1..Len(file.stmts) : file.stmts[i].s = "syntax_error"

(* acc.raised: an exception is on its way out; acc.log: the files handed to *)
(* ast.parse so far, in order                                               *)
RECURSIVE parse_file_recursive(_, _, _)
RECURSIVE ParseDeps(_, _, _, _)
parse_file_recursive(acc, files, idx) ==
    IF acc.raised \/ idx \in acc.parsed THEN acc
    ELSE IF Malformed(files[idx])
    THEN [acc EXCEPT !.parsed = @ \cup {idx}, !.log = Append(@, idx), !.raised = TRUE]
    ELSE ParseDeps([acc EXCEPT !.W = make_file_group(acc.W, files[idx]),
                               !.fgs = Append(acc.fgs, Len(acc.W.groups) + 1),
                               !.parsed = @ \cup {idx},
                               !.log = Append(@, idx)],
                   files, WalkImports(files[idx]), 1)

ParseDeps(acc, files, imports, i) ==
    IF i > Len(imports) \/ acc.raised THEN acc
    ELSE LET dep == resolve_import_path(files, imports[i])
         IN ParseDeps(IF dep = 0 THEN acc ELSE parse_file_recursive(acc, files, dep),
                      files, imports, i + 1)

(* lines 911-919: the sources whose tree language.get_tree returned *)
RECURSIVE GetTrees(_, _, _, _)
GetTrees(acc, prj, skip, i) ==
    IF i > Len(prj.sources) \/ acc.raised THEN acc
    ELSE GetTrees(
           IF Malformed(prj.files[prj.sources[i]])
           THEN [acc EXCEPT !.log = Append(@, prj.sources[i]), !.raised = ~skip]
           ELSE [acc EXCEPT !.log = Append(@, prj.sources[i]),
                            !.trees = Append(@, prj.sources[i])],
           prj, skip, i + 1)

(* lines 932-946: the groups of a source whose dependency tree raises are   *)
(* lost with the exception, the files it marked as parsed stay marked       *)
RECURSIVE ParseSources(_, _, _, _, _)
ParseSources(acc, prj, heur, skip, i) ==
    IF i > Len(acc.trees) \/ acc.raised THEN acc
    ELSE ParseSources(
           IF heur
           THEN With(parse_file_recursive(acc, prj.files, acc.trees[i]), LAMBDA r :
                  IF r.raised /\ skip
                  THEN [acc EXCEPT !.parsed = r.parsed, !.log = r.log]
                  ELSE r)
           ELSE [acc EXCEPT !.W = make_file_group(acc.W, prj.files[acc.trees[i]]),
                            !.fgs = Append(acc.fgs, Len(acc.W.groups) + 1)],
           prj, heur, skip, i + 1)

(* lines 910-946 *)
parse_sources(prj, heur, skip) ==
    With(GetTrees([W |-> [groups |-> << >>, nodes |-> << >>], fgs |-> << >>,
                   parsed |-> {}, trees |-> << >>, log |-> << >>, raised |-> FALSE],
                  prj, skip, 1),
         LAMBDA acc : ParseSources(acc, prj, heur, skip, 1))

-----------------------------------------------------------------------------
(* map_it, step 4: consolidation and inheritance, lines 954-1007 *)

RECURSIVE subgroup_full_token(_, _)
subgroup_full_token(G, gid) ==
    IF G[gid].gtype = FILE \/ G[gid].parent = 0 THEN <<G[gid].token>>
    ELSE subgroup_full_token(G, G[gid].parent) \o <<G[gid].token>>

AllSubgroups(G, fgs) == Flatten([i \in 1..Len(fgs) |-> all_groups(G, fgs[i])])

(* nodes_by_subgroup_token as a sequence of (key, node list) in insertion   *)
(* order, the lists of groups with one full token merged                    *)
nodes_by_subgroup_token(G, fgs) ==
    With(AllSubgroups(G, fgs), LAMBDA subs :
    With([i \in 1..Len(subs) |-> subgroup_full_token(G, subs[i])], LAMBDA keys :
    With(SelectSeq([i \in 1..Len(subs) |-> i],
                   LAMBDA i : \A j \in 1..(i - 1) : keys[j] # keys[i]),
         LAMBDA firsts :
      [k \in 1..Len(firsts) |->
          [key |-> keys[firsts[k]],
           nodes |-> Flatten([i \in 1..Len(subs) |->
                       IF keys[i] = keys[firsts[k]] THEN G[subs[i]].nodes ELSE << >>])]])))

resolved_inherits(G, fgs, gid) ==
    With(nodes_by_subgroup_token(G, fgs), LAMBDA table :
      Flatten([i \in 1..Len(G[gid].inherits) |->
          MapSeq(SelectSeq(table, LAMBDA e : Last(e.key) = G[gid].inherits[i]),
                 LAMBDA e : e.nodes)]))

InheritVars(N, inherits) ==
    MapSeq(Flatten(inherits), LAMBDA n : MkVar(<<N[n].token>>, "node", n, N[n].line))

ConsolidateGroups(G, fgs, heur) ==
    With(Range(AllSubgroups(G, fgs)), LAMBDA subs :
      [g \in 1..Len(G) |->
          IF g \in subs
          THEN [G[g] EXCEPT !.inherits = IF heur THEN resolved_inherits(G, fgs, g)
                                         ELSE << >>]
          ELSE G[g]])

(* lines 1004-1007: the nodes of a class get its inherited nodes as         *)
(* variables; G is the group arena before the inherits were resolved        *)
ConsolidateNodes(G, N, fgs, heur) ==
    With(Range(AllSubgroups(G, fgs)), LAMBDA subs :
      [n \in 1..Len(N) |->
          IF heur /\ N[n].parent \in subs
          THEN [N[n] EXCEPT !.variables =
                  @ \o InheritVars(N, resolved_inherits(G, fgs, N[n].parent))]
          ELSE N[n]])

(* step 5, lines 1010-1012 *)
ResolveAll(G, N, fgs, AN) ==
    [n \in 1..Len(N) |->
       IF \E i \in 1..Len(AN) : AN[i] = n
       THEN [N[n] EXCEPT !.variables = MapSeq(@, LAMBDA v : resolve_variable(G, N, fgs, v))]
       ELSE N[n]]

-----------------------------------------------------------------------------
(* map_it: the argument-propagation heuristic, lines 1021-1052 *)

FirstNamed(N, AN, token) ==
    LET hit == SelectSeq(AN, LAMBDA n : N[n].token = token)
    IN IF hit = << >> THEN 0 ELSE hit[1]

(* what one call propagates: (target node, parameter, argument node) *)
CallPropagations(G, N, AN, call) ==
    With(SelectSeq(AN, LAMBDA n : /\ N[n].token = call.token
                                  /\ G[N[n].parent].gtype = FILE),
         LAMBDA candidates :
      IF call.arg_tokens = << >> \/ Len(candidates) # 1 THEN << >>
      ELSE LET target == candidates[1]
               param_tokens == N[target].param_tokens
               upto == IF Len(call.arg_tokens) < Len(param_tokens)
                       THEN Len(call.arg_tokens) ELSE Len(param_tokens)
           IN SelectSeq([i \in 1..upto |->
                           [target |-> target, param |-> param_tokens[i],
                            arg |-> FirstNamed(N, AN, call.arg_tokens[i])]],
                        LAMBDA u : u.arg # 0))

SetFirstVar(variables, param, arg) ==
    LET hit == {i \in 1..Len(variables) : variables[i].token = <<param>>}
    IN IF hit = {} THEN variables
       ELSE [variables EXCEPT ![CHOOSE i \in hit : \A j \in hit : i <= j] =
                                 [@ EXCEPT !.kind = "node", !.v = arg]]

RECURSIVE ApplyPropagations(_, _, _)
ApplyPropagations(N, ups, i) ==
    IF i > Len(ups) THEN N
    ELSE ApplyPropagations(
           [N EXCEPT ![ups[i].target].variables = SetFirstVar(@, ups[i].param, ups[i].arg)],
           ups, i + 1)

AllCalls(N, AN) == Flatten([i \in 1..Len(AN) |-> N[AN[i]].calls])

propagate_arguments(G, N, AN) ==
    ApplyPropagations(N, Flatten(MapSeq(AllCalls(N, AN),
                                        LAMBDA c : CallPropagations(G, N, AN, c))), 1)

-----------------------------------------------------------------------------
(* map_it, step 5.5: library synthesis, lines 1088-1236.  A state of the    *)
(* run is a record S of the variables of map_it.                            *)

LibGroupOf(S, module) ==
    LET hit == SelectSeq(S.lib_groups, LAMBDA e : e.module = module)
    IN IF hit = << >> THEN 0 ELSE hit[1].gid

(* library_groups_by_module[module], created when absent *)
EnsureLibGroup(S, module) ==
    IF LibGroupOf(S, module) # 0 THEN S
    ELSE [S EXCEPT
            !.G = Append(@, MkGroup(module, NAMESPACE,
                                    IF module = "builtins" THEN "Built-in Functions"
                                    ELSE "Library",
                                    << <<module>> >>, 0, << >>)),
            !.lib_groups = Append(@, [module |-> module, gid |-> Len(S.G) + 1])]

(* a new library node for a signature, under the group of its module *)
NewLibNode(S, module, sig, call, register) ==
    With(EnsureLibGroup(S, module), LAMBDA S1 :
    With(LibGroupOf(S1, module), LAMBDA gid :
    With(add_node([groups |-> S1.G, nodes |-> S1.N], gid,
                  MkNode(call.token, << >>, << >>, gid, <<sig>>, call.line,
                         FALSE, TRUE, FALSE, FALSE), FALSE),
         LAMBDA W :
      [S1 EXCEPT !.G = W.groups, !.N = W.nodes,
                 !.lib_sigs = MapSet(@, sig, Len(W.nodes)),
                 !.AN = IF register THEN Append(@, Len(W.nodes)) ELSE @])))

RECURSIVE SynthLibraries(_, _, _)
SynthLibraries(S, calls, i) ==
    IF i > Len(calls) THEN S
    ELSE LET call == calls[i]
             sig == djoin(call.owner, <<call.token>>)
         IN SynthLibraries(
              IF call.is_library /\ is_attr(call) /\ sig \notin DOMAIN S.lib_sigs
              THEN NewLibNode(S, Head(call.owner), sig, call, TRUE)
              ELSE S,
              calls, i + 1)

FirstVarNamed(N, AN, token) ==
    LET vs == SelectSeq(Flatten([i \in 1..Len(AN) |-> N[AN[i]].variables]),
                        LAMBDA v : v.token = token)
    IN IF vs = << >> THEN [token |-> << >>, kind |-> "none", v |-> 0, line |-> 0]
       ELSE vs[1]

RECURSIVE SynthInstanceLibraries(_, _, _)
SynthInstanceLibraries(S, calls, i) ==
    IF i > Len(calls) THEN S
    ELSE With(FirstVarNamed(S.N, S.AN, calls[i].owner), LAMBDA found_var :
           LET call == calls[i]
               module_name == Head(found_var.v.owner)
               sig == <<module_name, call.token>>
           IN SynthInstanceLibraries(
                IF /\ is_attr(call)
                   /\ Len(call.owner) = 1
                   /\ found_var.kind = "call"
                   /\ found_var.v.is_library
                   /\ sig \notin DOMAIN S.lib_sigs
                THEN NewLibNode(S, module_name, sig, call, FALSE)
                ELSE S,
                calls, i + 1))

FileGroupNamed(S, token) ==
    LET hit == SelectSeq(S.fgs, LAMBDA g : S.G[g].token = token /\ S.G[g].gtype = FILE)
    IN IF hit = << >> THEN 0 ELSE hit[1]

NewBuiltinsFileGroup(S) ==
    [S EXCEPT !.G = Append(@, MkGroup("builtins", FILE, "File", << >>, 0, << >>)),
              !.fgs = Append(@, Len(S.G) + 1)]

Adopt(S, parent, gid) ==
    [S EXCEPT !.G = [add_subgroup([groups |-> S.G, nodes |-> S.N], parent, gid).groups
                     EXCEPT ![gid].parent = parent]]

RECURSIVE AttachLibGroups(_, _, _)
AttachLibGroups(S, i, builtins_file_group) ==
    IF i > Len(S.lib_groups) THEN S
    ELSE LET gid == S.lib_groups[i].gid
         IN IF S.G[gid].token = "builtins"
            THEN IF builtins_file_group = 0
                 THEN With(NewBuiltinsFileGroup(S), LAMBDA S0 :
                      With(Adopt(S0, Len(S0.G), gid), LAMBDA S1 :
                        AttachLibGroups([S1 EXCEPT !.AN = @ \o group_all_nodes(S1.G, gid)],
                                        i + 1, Len(S1.G))))
                 ELSE With(Adopt(S, builtins_file_group, gid), LAMBDA S1 :
                        AttachLibGroups([S1 EXCEPT !.AN = @ \o group_all_nodes(S1.G, gid)],
                                        i + 1, builtins_file_group))
            ELSE With(IF S.fgs # << >> THEN Adopt(S, S.fgs[1], gid) ELSE S, LAMBDA S1 :
                   AttachLibGroups([S1 EXCEPT !.AN = @ \o group_all_nodes(S1.G, gid)],
                                   i + 1, builtins_file_group))

-----------------------------------------------------------------------------
(* map_it, step 6: resolving the calls of one node, lines 1244-1398 *)

(* the callable names of the builtins module that occur in the projects *)
builtin_names == {"print", "super", "len"}

(* _find_links: every call of node a is resolved before any edge of a is   *)
(* built; temp is the list all_nodes + all_imports built for this one call  *)
(* of _find_links, so nodes synthesized in it do not reach all_nodes.  A     *)
(* link records what _find_link_for_call returned for one call (node_b, 0   *)
(* for None; bad for a returned bad call, cands its candidates), the        *)
(* verdict of every strategy on that call, and later the node the edge of   *)
(* the call points at (target), the index of that edge in edges when it was *)
(* appended (0 when no edge was built) and its label                        *)
RECURSIVE _find_links(_, _, _, _, _, _)
_find_links(S, temp, heur, a, j, out) ==
    IF j > Len(S.N[a].calls) THEN [S |-> S, links |-> out]
    ELSE With(_find_link_for_call(S.G, S.N, temp, heur, S.N[a].calls[j], a), LAMBDA r :
         With(IF r.synth = "none" THEN [groups |-> S.G, nodes |-> S.N]
              ELSE add_node([groups |-> S.G, nodes |-> S.N], r.sparent,
                            MkNode(r.stoken, << >>, << >>, r.sparent, << >>, 0,
                                   r.synth = "ctor", FALSE, FALSE, r.synth = "ctor"),
                            FALSE),
              LAMBDA W :
           LET node_b == IF r.synth = "none" THEN r.node ELSE Len(W.nodes)
           IN _find_links([S EXCEPT !.G = W.groups,
                                    !.N = [W.nodes EXCEPT
                                             ![a].calls[j].via_super = @ \/ r.via_super,
                                             ![a].calls[j].via_factory = @ \/ r.via_factory]],
                          IF r.synth = "none" THEN temp ELSE Append(temp, node_b),
                          heur, a, j + 1,
                          Append(out, [node_a |-> a, idx |-> j, node_b |-> node_b,
                                       target |-> 0, edge |-> 0, label |-> "",
                                       bad |-> r.bad, cands |-> r.cands,
                                       strat |-> r.strat, synth |-> r.synth,
                                       verdicts |-> Strategies(S.G, S.N, temp, heur,
                                                               S.N[a].calls[j], a),
                                       call |-> S.N[a].calls[j]]))))

(* lines 1259-1308: an unresolved bare call of a builtin *)
LinkBuiltin(S, call) ==
    LET lib_sig == <<"builtins", call.token>>
    IN With(EnsureLibGroup(S, "builtins"), LAMBDA S1 :
       With(LibGroupOf(S1, "builtins"), LAMBDA gid :
       With(IF lib_sig \in DOMAIN S1.lib_sigs THEN S1
            ELSE NewLibNode(S1, "builtins", lib_sig, call, TRUE),
            LAMBDA S2 :
       With(IF S2.fgs # << >> /\ S2.G[gid].parent = 0
            THEN IF FileGroupNamed(S2, "builtins") # 0
                 THEN Adopt(S2, FileGroupNamed(S2, "builtins"), gid)
                 ELSE With(NewBuiltinsFileGroup(S2),
                           LAMBDA S0 : Adopt(S0, Len(S0.G), gid))
            ELSE S2,
            LAMBDA S3 : [S |-> S3, node_b |-> S3.lib_sigs[lib_sig]]))))

(* a variant that makes a new NotFound node for every unresolved call *)
LinkMissing_always_new(S, call) ==
    With(add_node([groups |-> S.G, nodes |-> S.N], S.missing_group,
                  MkNode(call.token, << >>, << >>, S.missing_group, << >>, 0,
                         FALSE, FALSE, TRUE, FALSE), FALSE),
         LAMBDA W :
           [S |-> [S EXCEPT !.G = W.groups, !.N = W.nodes,
                            !.AN = Append(@, Len(W.nodes)),
                            !.missing_keys = MapSet(@, to_string(call), Len(W.nodes))],
            node_b |-> Len(W.nodes)])

(* lines 1311-1327: any other unresolved call gets the NotFound node of its *)
(* textual signature                                                        *)
LinkMissing(S, call) ==
    LET key == to_string(call)
    IN IF key \in DOMAIN S.missing_keys
       THEN [S |-> S, node_b |-> S.missing_keys[key]]
       ELSE With(add_node([groups |-> S.G, nodes |-> S.N], S.missing_group,
                          MkNode(call.token, << >>, << >>, S.missing_group, << >>, 0,
                                 FALSE, FALSE, TRUE, FALSE), FALSE),
                 LAMBDA W :
              [S |-> [S EXCEPT !.G = W.groups, !.N = W.nodes,
                               !.AN = Append(@, Len(W.nodes)),
                               !.missing_keys = MapSet(@, key, Len(W.nodes))],
               node_b |-> Len(W.nodes)])

RECURSIVE Dotted(_)
Dotted(d) == IF Len(d) = 0 THEN "" ELSE IF Len(d) = 1 THEN d[1]
             ELSE d[1] \o "." \o Dotted(Tail(d))

PointsAt(S, var, node_b) ==
    \/ var.kind = "node" /\ var.v = node_b
    \/ /\ var.kind = "group"
       /\ \E i \in 1..Len(group_all_nodes(S.G, var.v)) :
             group_all_nodes(S.G, var.v)[i] = node_b

(* lines 1338-1367 *)
AliasLabel(S, call, a, node_b, label) ==
    With(SelectSeq(get_variables(S.G, S.N, a, call.line),
                   LAMBDA v : /\ v.token = (IF is_attr(call) THEN call.owner
                                            ELSE <<call.token>>)
                              /\ PointsAt(S, v, node_b)),
         LAMBDA named :
           IF named = << >> THEN label
           ELSE IF is_attr(call)
           THEN "as " \o Dotted(named[1].token) \o "." \o call.token \o "()"
           ELSE "as " \o call.token \o "()")

Annotate(label, text, sep) ==
    IF label # "" THEN label \o sep \o text ELSE text

(* a variant that labels the edge without the dict dispatch *)
EdgeLabel_without_indirect(S, alias_labels, call, a, node_b) ==
    With(IF call.via_super THEN "via super" ELSE "", LAMBDA l0 :
    With(IF alias_labels THEN AliasLabel(S, call, a, node_b, l0) ELSE l0, LAMBDA l1 :
    With(IF call.via_super
         THEN (IF l1 # "" THEN l1 \o " (via super)" ELSE "via super") ELSE l1,
         LAMBDA l2 :
      IF call.via_factory
      THEN (IF l2 # "" THEN l2 \o " (via factory)" ELSE "via factory") ELSE l2)))

(* lines 1329-1398: the label of the edge of one call *)
EdgeLabel(S, alias_labels, call, a, node_b) ==
    With(IF call.via_super THEN "via super" ELSE "", LAMBDA l0 :
    With(IF alias_labels THEN AliasLabel(S, call, a, node_b, l0) ELSE l0, LAMBDA l1 :
    With(IF call.via_super
         THEN (IF l1 # "" THEN l1 \o " (via super)" ELSE "via super") ELSE l1,
         LAMBDA l2 :
    With(IF call.via_factory
         THEN (IF l2 # "" THEN l2 \o " (via factory)" ELSE "via factory") ELSE l2,
         LAMBDA l3 :
      IF call.indirect # << >> /\ call.indirect[1] = "dict"
      THEN Annotate(l3, "as " \o call.indirect[2] \o "['" \o call.indirect[3] \o "']()",
                    " ")
      ELSE l3))))

RECURSIVE ProcessLinks(_, _, _, _)
ProcessLinks(S, alias_labels, lks, i) ==
    IF i > Len(lks) THEN S
    ELSE LET lk == lks[i]
             call == S.N[lk.node_a].calls[lk.idx]
         IN With(IF lk.bad THEN [S EXCEPT !.bad_calls = Append(@, call)] ELSE S,
                 LAMBDA S1 :
            With(IF lk.node_b # 0 THEN [S |-> S1, node_b |-> lk.node_b]
                 ELSE IF call.owner = NoOwner /\ call.token \in builtin_names
                 THEN LinkBuiltin(S1, call)
                 ELSE LinkMissing(S1, call),
                 LAMBDA t :
            With(EdgeLabel(t.S, alias_labels, call, lk.node_a, t.node_b), LAMBDA label :
              ProcessLinks(
                [t.S EXCEPT
                   !.edges = Append(@, [node0 |-> lk.node_a, node1 |-> t.node_b,
                                        label |-> label]),
                   !.links = Append(@, [lk EXCEPT !.call = call, !.target = t.node_b,
                                                   !.edge = Len(t.S.edges) + 1,
                                                   !.label = label])],
                alias_labels, lks, i + 1))))

LinkNode(S, heur, alias_labels, a) ==
    With(_find_links(S, S.AN, heur, a, 1, << >>),
         LAMBDA f : ProcessLinks(f.S, alias_labels, f.links, 1))

-----------------------------------------------------------------------------
(* map_it: lines 1400-1466, the end of the run *)

IsIn(seq, x) == \E i \in 1..Len(seq) : seq[i] = x

(* lines 1417-1438 *)
strip_libraries(S) ==
    With({n \in Range(S.AN) : S.N[n].is_library}, LAMBDA lib_nodes :
      IF lib_nodes = {} THEN S
      ELSE [S EXCEPT
              !.edges = SelectSeq(@, LAMBDA e : /\ e.node0 \notin lib_nodes
                                                /\ e.node1 \notin lib_nodes),
              !.G = [g \in 1..Len(S.G) |->
                       [S.G[g] EXCEPT
                          !.nodes = SelectSeq(@, LAMBDA n : n \notin lib_nodes),
                          !.subgroups =
                             IF IsIn(S.fgs, g)
                             THEN SelectSeq(@, LAMBDA sg : S.G[sg].display \notin
                                                   {"Library", "Built-in Functions"})
                             ELSE @]],
              !.AN = SelectSeq(@, LAMBDA n : n \notin lib_nodes)])

nodes_with_edges(es) == {es[i].node0 : i \in 1..Len(es)}
                        \cup {es[i].node1 : i \in 1..Len(es)}

(* a set of nodes as the list Python makes of it; the order of that list is *)
(* unspecified and nothing below reads it, so the list is kept sorted       *)
RECURSIVE SetToSeq(_)
SetToSeq(T) == IF T = {} THEN << >>
               ELSE LET m == CHOOSE x \in T : \A y \in T : x <= y
                    IN <<m>> \o SetToSeq(T \ {m})

(* a variant that removes the nodes without edges and leaves the groups *)
trim_keeps_groups(S) ==
    With(nodes_with_edges(S.edges), LAMBDA nwe :
    With({n \in Range(S.AN) : n \notin nwe}, LAMBDA drop :
      [S EXCEPT !.G = [g \in 1..Len(S.G) |->
                         [S.G[g] EXCEPT !.nodes = SelectSeq(@, LAMBDA n : n \notin drop)]],
                !.AN = SetToSeq(nwe)]))

(* lines 1440-1456 *)
trim(S) ==
    With(nodes_with_edges(S.edges), LAMBDA nwe :
    With({n \in Range(S.AN) : n \notin nwe}, LAMBDA drop :
    With([g \in 1..Len(S.G) |->
            [S.G[g] EXCEPT !.nodes = SelectSeq(@, LAMBDA n : n \notin drop)]],
         LAMBDA G1 :
    With(Range(AllSubgroups(G1, S.fgs)), LAMBDA reach :
    With([g \in 1..Len(G1) |->
            IF g \in reach
            THEN [G1[g] EXCEPT !.subgroups =
                    SelectSeq(@, LAMBDA sg : group_all_nodes(G1, sg) # << >>)]
            ELSE G1[g]],
         LAMBDA G2 :
      [S EXCEPT !.G = G2,
                !.fgs = SelectSeq(@, LAMBDA g : group_all_nodes(G2, g) # << >>),
                !.AN = SetToSeq(nwe)])))))

-----------------------------------------------------------------------------
(* The projects that are analysed: file a, and optionally a second file b.  *)
(*                                                                          *)
(*   a.py   import lib                     b.py   def m(): pass             *)
(*          [import b]                            def make(): return helper *)
(*          [from UNKNOWN_VAR import m]           [def helper(): pass]      *)
(*          def g(): pass                         [class Base:              *)
(*          def f(): <head> <tail>                     def m(self): pass]   *)
(*          class Base:                                                     *)
(*              def m(self): pass                                           *)
(*          class Derived(Base):                                            *)
(*              def c(self): <cbody>                                        *)
(*              [def m(self): super().m()]                                  *)
(*          [class Other:                                                   *)
(*              def m(self): pass]                                          *)

MaxTail == 1

Call0(func) == <<ExprS(0, func, << >>)>>

Bind0(target, ctor, func) == <<AssignS(0, target, ctor), ExprS(0, func, << >>)>>

(* what f does first *)
HeadSnippets ==
    { Call0(NameE("g")), Call0(AttrE("x", "m")),
      Call0(AttrE("lib", "k")), Call0(NameE("print")), Call0(NameE("zz")),
      Call0(CallE("make")),
      Bind0("p", AttrE("lib", "Ctor"), AttrE("p", "k")),
      Bind0("q", NameE("Base"), AttrE("q", "m")) }

(* the calls that may follow in f, at most MaxTail of them *)
TailSnippets == { Call0(NameE("zz")) }

(* the body of Derived.c, and whether Derived overrides m *)
DerivedShapes ==
    { [cbody |-> Call0(AttrE("self", "m")), override |-> FALSE],
      [cbody |-> Call0(AttrCallE("super", "m")), override |-> FALSE],
      [cbody |-> Call0(AttrE("self", "zz")), override |-> FALSE],
      [cbody |-> Call0(NameE("zz")), override |-> FALSE],
      [cbody |-> Bind0("s", NameE("super"), AttrE("s", "m")), override |-> FALSE],
      [cbody |-> Call0(AttrE("self", "m")), override |-> TRUE],
      [cbody |-> Call0(AttrCallE("super", "m")), override |-> TRUE],
      [cbody |-> Call0(NameE("m")) \o Call0(AttrCallE("super", "m")),
       override |-> FALSE] }

Numbered(stmts, base) == [i \in 1..Len(stmts) |-> [stmts[i] EXCEPT !.line = base + i]]

RECURSIVE BodiesUpTo(_, _)
BodiesUpTo(snips, n) ==
    IF n = 0 THEN {<< >>}
    ELSE BodiesUpTo(snips, n - 1)
         \cup {b \o sn : b \in BodiesUpTo(snips, n - 1), sn \in snips}

FileA(fbody, shape, extra) ==
    FileDef("a",
        <<ImportS(1, <<"lib">>, "")>>
          \o (IF extra = "b_imported" THEN <<ImportS(2, <<"b">>, "")>> ELSE << >>)
          \o (IF extra = "from_import"
              THEN <<ImportFromS(2, UNKNOWN_VAR, <<"m">>, "")>> ELSE << >>),
        <<FuncDef("g", 3, << >>, <<PassS(4)>>),
          FuncDef("f", 10, << >>, Numbered(fbody, 10))>>,
        <<ClassDef("Base", 20, << >>,
                   <<FuncDef("m", 21, <<"self">>, <<PassS(22)>>)>>, << >>),
          ClassDef("Derived", 30, <<"Base">>,
                   <<FuncDef("c", 31, <<"self">>, Numbered(shape.cbody, 31))>>
                     \o (IF shape.override
                         THEN <<FuncDef("m", 36, <<"self">>,
                                        Numbered(Call0(AttrCallE("super", "m")), 36))>>
                         ELSE << >>),
                   << >>)>>
          \o (IF extra = "other"
              THEN <<ClassDef("Other", 40, << >>,
                              <<FuncDef("m", 41, <<"self">>, <<PassS(42)>>)>>, << >>)>>
              ELSE << >>))

FileB(extra) ==
    FileDef("b", << >>,
        <<FuncDef("m", 1, << >>, <<PassS(2)>>),
          FuncDef("make", 3, << >>, <<ReturnS(4, "name", "helper")>>)>>
          \o (IF extra = "b_helper"
              THEN <<FuncDef("helper", 5, << >>, <<PassS(6)>>)>> ELSE << >>),
        IF extra = "b_base"
        THEN <<ClassDef("Base", 10, << >>,
                        <<FuncDef("m", 11, <<"self">>, <<PassS(12)>>)>>, << >>)>>
        ELSE << >>)

WithB == {"b_source", "b_imported", "b_helper", "b_base"}

Extras == {"none", "other", "from_import"} \cup WithB

MkProject(fbody, shape, extra) ==
    [files |-> <<FileA(fbody, shape, extra)>>
               \o (IF extra \in WithB THEN <<FileB(extra)>> ELSE << >>),
     sources |-> IF extra \in WithB \ {"b_imported"} THEN <<1, 2>> ELSE <<1>>]

Projects ==
    {MkProject(h \o t, sh, ex) :
        h \in HeadSnippets, t \in BodiesUpTo(TailSnippets, MaxTail),
        sh \in DerivedShapes, ex \in Extras}

(* show_libraries is read only when the result is trimmed *)
Configs ==
    {c \in [heuristics : BOOLEAN, no_trimming : BOOLEAN,
            show_libraries : BOOLEAN, alias_labels : {FALSE},
            skip_parse_errors : {FALSE}] :
        c.no_trimming => ~c.show_libraries}

-----------------------------------------------------------------------------
(* The run of map_it as a state machine *)

NoProbe == [on |-> FALSE, node_a |-> 0, call |-> MkCall("", 0, NoOwner, FALSE, << >>),
            extra |-> 0, extra_token |-> "", extra_group |-> "",
            before |-> Pass, after |-> Pass]

(* the arguments of main and what code2flow has done with them: args as     *)
(* parsed from the command line, the SubsetParams that generate returned,   *)
(* the exception that ended the run and the function that raised it, the    *)
(* files handed to ast.parse so far, and the graph map_it returned          *)
NoArgs == [target_function |-> "", upstream_depth |-> 0, downstream_depth |-> 0,
           output_file |-> <<"out", "gv">>, exclude_functions |-> "list"]

NoSubset == [on |-> FALSE, target_function |-> "", upstream_depth |-> 0,
             downstream_depth |-> 0]

NoGraph == [all_nodes |-> << >>, edges |-> << >>, file_groups |-> << >>,
            groups |-> << >>]

NoRun == [entry |-> "map_it", args |-> NoArgs, subset_params |-> NoSubset,
          error |-> "", raised_by |-> "", parsed |-> << >>, graph |-> NoGraph,
          target |-> 0, made |-> << >>]

Init ==
    /\ project \in Projects
    /\ cfg \in Configs
    /\ pc = "parse"
    /\ groups = << >>
    /\ nodes = << >>
    /\ file_groups = << >>
    /\ all_nodes = << >>
    /\ lib_sigs = EmptyMap
    /\ lib_groups = << >>
    /\ missing_keys = EmptyMap
    /\ missing_group = 0
    /\ bad_calls = << >>
    /\ edges = << >>
    /\ links = << >>
    /\ cursor = [snap |-> << >>, i |-> 1]
    /\ probe = NoProbe
    /\ run = NoRun

CurS == [G |-> groups, N |-> nodes, AN |-> all_nodes, fgs |-> file_groups,
         lib_sigs |-> lib_sigs, lib_groups |-> lib_groups,
         missing_keys |-> missing_keys, missing_group |-> missing_group,
         bad_calls |-> bad_calls, edges |-> edges, links |-> links]

Install(S) ==
    /\ groups' = S.G
    /\ nodes' = S.N
    /\ all_nodes' = S.AN
    /\ file_groups' = S.fgs
    /\ lib_sigs' = S.lib_sigs
    /\ lib_groups' = S.lib_groups
    /\ missing_keys' = S.missing_keys
    /\ missing_group' = S.missing_group
    /\ bad_calls' = S.bad_calls
    /\ edges' = S.edges
    /\ links' = S.links

(* lines 910-946: an exception that leaves map_it ends the run *)
ParseFiles ==
    /\ pc = "parse"
    /\ \E acc \in {parse_sources(project, cfg.heuristics, cfg.skip_parse_errors)} :
          /\ IF acc.raised
             THEN Install(CurS)
             ELSE Install([CurS EXCEPT !.G = acc.W.groups, !.N = acc.W.nodes,
                                       !.fgs = acc.fgs])
          /\ pc' = IF acc.raised THEN "error" ELSE "consolidate"
          /\ run' = [run EXCEPT !.parsed = acc.log,
                                !.error = IF acc.raised THEN "SyntaxError" ELSE @,
                                !.raised_by = IF acc.raised THEN "map_it" ELSE @]
    /\ UNCHANGED <<project, cfg, cursor, probe>>

(* lines 954-1007 *)
Consolidate ==
    /\ pc = "consolidate"
    /\ Install([CurS EXCEPT
                  !.G = ConsolidateGroups(groups, file_groups, cfg.heuristics),
                  !.N = ConsolidateNodes(groups, nodes, file_groups, cfg.heuristics),
                  !.AN = Flatten([i \in 1..Len(file_groups) |->
                                    group_all_nodes(groups, file_groups[i])])])
    /\ pc' = "resolve_variables"
    /\ UNCHANGED <<project, cfg, cursor, probe, run>>

(* lines 1010-1012 *)
ResolveVariables ==
    /\ pc = "resolve_variables"
    /\ Install([CurS EXCEPT !.N = ResolveAll(groups, nodes, file_groups, all_nodes)])
    /\ pc' = "propagate"
    /\ UNCHANGED <<project, cfg, cursor, probe, run>>

(* lines 1017-1052 *)
PropagateArguments ==
    /\ pc = "propagate"
    /\ Install(IF cfg.heuristics
               THEN [CurS EXCEPT !.N = propagate_arguments(groups, nodes, all_nodes)]
               ELSE CurS)
    /\ pc' = "lib_synth"
    /\ UNCHANGED <<project, cfg, cursor, probe, run>>

(* lines 1088-1149 *)
SynthesizeLibraries ==
    /\ pc = "lib_synth"
    /\ \E S1 \in {SynthLibraries(CurS, AllCalls(nodes, all_nodes), 1)} : Install(S1)
    /\ pc' = "lib_instance"
    /\ UNCHANGED <<project, cfg, cursor, probe, run>>

(* lines 1151-1216 *)
SynthesizeInstanceLibraries ==
    /\ pc = "lib_instance"
    /\ \E S1 \in {SynthInstanceLibraries(CurS, AllCalls(nodes, all_nodes), 1)} :
          Install(S1)
    /\ pc' = "lib_attach"
    /\ UNCHANGED <<project, cfg, cursor, probe, run>>

(* lines 1218-1243: the library groups are attached, the NotFound group is  *)
(* made and the loop over list(all_nodes) starts                            *)
AttachLibraries ==
    /\ pc = "lib_attach"
    /\ \E S1 \in {AttachLibGroups(CurS, 1, FileGroupNamed(CurS, "builtins"))} :
          /\ Install([S1 EXCEPT !.G = Append(@, MkGroup("NotFound", FILE, "File",
                                                        << >>, 0, << >>)),
                                !.missing_group = Len(S1.G) + 1])
          /\ cursor' = [snap |-> S1.AN, i |-> 1]
    /\ pc' = "links"
    /\ UNCHANGED <<project, cfg, probe, run>>

(* lines 1244-1398: one iteration of the loop over the nodes *)
FindLinks ==
    /\ pc = "links"
    /\ cursor.i <= Len(cursor.snap)
    /\ \E S1 \in {LinkNode(CurS, cfg.heuristics, cfg.alias_labels,
                           cursor.snap[cursor.i])} : Install(S1)
    /\ cursor' = [cursor EXCEPT !.i = @ + 1]
    /\ UNCHANGED <<project, cfg, pc, probe, run>>

(* lines 1400-1414 *)
FinishLinks ==
    /\ pc = "links"
    /\ cursor.i > Len(cursor.snap)
    /\ Install(IF groups[missing_group].nodes # << >>
               THEN [CurS EXCEPT !.fgs = Append(@, missing_group)]
               ELSE CurS)
    /\ pc' = IF cfg.no_trimming THEN "done" ELSE "strip"
    /\ UNCHANGED <<project, cfg, cursor, probe, run>>

(* lines 1416-1438 *)
StripLibraries ==
    /\ pc = "strip"
    /\ \E S1 \in {IF cfg.show_libraries THEN CurS ELSE strip_libraries(CurS)} :
          Install(S1)
    /\ pc' = "trim"
    /\ UNCHANGED <<project, cfg, cursor, probe, run>>

(* lines 1440-1466 *)
Trim ==
    /\ pc = "trim"
    /\ \E S1 \in {trim(CurS)} : Install(S1)
    /\ pc' = "done"
    /\ UNCHANGED <<project, cfg, cursor, probe, run>>

Next ==
    \/ ParseFiles
    \/ Consolidate
    \/ ResolveVariables
    \/ PropagateArguments
    \/ SynthesizeLibraries
    \/ SynthesizeInstanceLibraries
    \/ AttachLibraries
    \/ FindLinks
    \/ FinishLinks
    \/ StripLibraries
    \/ Trim

Spec == Init /\ [][Next]_vars

-----------------------------------------------------------------------------
(* _find_link_for_call as a function of the node list: before a node of the *)
(* loop is linked, one of its calls is resolved against the nodes as they   *)
(* are and against the same nodes with one more function, named token, in   *)
(* the file group gid and at the end of all_nodes.                          *)

ExtraTokens == {"helper", "w"}

WithExtraNode(S, gid, token) ==
    With(add_node([groups |-> S.G, nodes |-> S.N], gid,
                  MkNode(token, << >>, << >>, gid, << >>, 0, FALSE, FALSE, FALSE, FALSE),
                  FALSE),
         LAMBDA W : [S EXCEPT !.G = W.groups, !.N = W.nodes,
                              !.AN = Append(@, Len(W.nodes))])

Probe ==
    /\ pc = "links"
    /\ cursor.i <= Len(cursor.snap)
    /\ \E j \in 1..Len(nodes[cursor.snap[cursor.i]].calls),
          f \in 1..Len(file_groups), token \in ExtraTokens :
          \E a \in {cursor.snap[cursor.i]},
             S2 \in {WithExtraNode(CurS, file_groups[f], token)} :
             probe' = [on |-> TRUE, node_a |-> a, call |-> nodes[a].calls[j],
                       extra |-> Len(S2.N),
                       extra_token |-> token,
                       extra_group |-> groups[file_groups[f]].token,
                       before |-> _find_link_for_call(groups, nodes, all_nodes,
                                                      cfg.heuristics,
                                                      nodes[a].calls[j], a),
                       after |-> _find_link_for_call(S2.G, S2.N, S2.AN,
                                                     cfg.heuristics,
                                                     nodes[a].calls[j], a)]
    /\ pc' = "probed"
    /\ UNCHANGED <<project, cfg, groups, nodes, file_groups, all_nodes, lib_sigs,
                   lib_groups, missing_keys, missing_group, bad_calls, edges, cursor,
                   links, run>>

(* the resolution does not read the trimming options *)
InitProbe == Init /\ cfg.no_trimming

NextProbe ==
    \/ ParseFiles
    \/ Consolidate
    \/ ResolveVariables
    \/ PropagateArguments
    \/ SynthesizeLibraries
    \/ SynthesizeInstanceLibraries
    \/ AttachLibraries
    \/ FindLinks
    \/ FinishLinks
    \/ Probe

SpecProbe == InitProbe /\ [][NextProbe]_vars

-----------------------------------------------------------------------------
(* engine.py: main and code2flow around map_it.  A run entered through main  *)
(* goes main -> code2flow -> map_it -> _filter_for_subset; a run entered     *)
(* through code2flow gets its filter arguments from the caller.              *)


(* a variant that accepts negative depths *)
generate_unsigned(target_function, upstream_depth, downstream_depth) ==
    IF (upstream_depth # 0 \/ downstream_depth # 0) /\ target_function = ""
    THEN [error |-> "AssertionError", params |-> NoSubset]
    ELSE IF target_function = ""
    THEN [error |-> "", params |-> NoSubset]
    ELSE IF upstream_depth = 0 /\ downstream_depth = 0
    THEN [error |-> "AssertionError", params |-> NoSubset]
    ELSE [error |-> "",
          params |-> [on |-> TRUE, target_function |-> target_function,
                      upstream_depth |-> upstream_depth,
                      downstream_depth |-> downstream_depth]]

(* lines 137-163: Python's truth of an int is "not zero", of a str "not ''" *)
generate(target_function, upstream_depth, downstream_depth) ==
    IF upstream_depth # 0 /\ target_function = ""
    THEN [error |-> "AssertionError", params |-> NoSubset]
    ELSE IF downstream_depth # 0 /\ target_function = ""
    THEN [error |-> "AssertionError", params |-> NoSubset]
    ELSE IF target_function = ""
    THEN [error |-> "", params |-> NoSubset]
    ELSE IF ~(upstream_depth # 0 \/ downstream_depth # 0)
    THEN [error |-> "AssertionError", params |-> NoSubset]
    ELSE IF upstream_depth < 0
    THEN [error |-> "AssertionError", params |-> NoSubset]
    ELSE IF downstream_depth < 0
    THEN [error |-> "AssertionError", params |-> NoSubset]
    ELSE [error |-> "",
          params |-> [on |-> TRUE, target_function |-> target_function,
                      upstream_depth |-> upstream_depth,
                      downstream_depth |-> downstream_depth]]

VALID_EXTENSIONS == {"png", "svg", "dot", "gv", "json"}

(* code2flow with the extension looked at only when the output is written *)
code2flow_precheck_late_extension(args) ==
    IF args.exclude_functions # "list" THEN "TypeError" ELSE ""

(* lines 1597-1633: what code2flow raises before it calls map_it.  The       *)
(* output file name is the sequence of its parts between the dots.           *)
code2flow_precheck(args) ==
    IF args.exclude_functions # "list" THEN "TypeError"
    ELSE IF Len(args.output_file) < 2 THEN "ValueError"
    ELSE IF Last(args.output_file) \notin VALID_EXTENSIONS THEN "ValueError"
    ELSE ""

(* model.py: Node.token_with_ownership and Node.name *)
token_with_ownership(G, N, n) ==
    IF N[n].parent # 0 /\ G[N[n].parent].gtype \in {CLASS, NAMESPACE}
    THEN G[N[n].parent].token \o "." \o N[n].token
    ELSE N[n].token

node_name(G, N, n) ==
    G[top_group(G, N[n].parent)].token \o "::" \o token_with_ownership(G, N, n)

(* lines 167-185: the matching entries of all_nodes; 0 entries or several    *)
(* raise                                                                     *)
target_nodes(G, N, AN, target_function) ==
    SelectSeq(AN, LAMBDA n : \/ N[n].token = target_function
                             \/ token_with_ownership(G, N, n) = target_function
                             \/ node_name(G, N, n) = target_function)


(* a variant that takes the first of several matches *)
_find_target_node_first(G, N, AN, target_function) ==
    With(target_nodes(G, N, AN, target_function), LAMBDA found :
      IF Len(found) >= 1 THEN [error |-> "", node |-> found[1]]
      ELSE [error |-> "AssertionError", node |-> 0])

_find_target_node(G, N, AN, target_function) ==
    With(target_nodes(G, N, AN, target_function), LAMBDA found :
      IF Len(found) = 1 THEN [error |-> "", node |-> found[1]]
      ELSE [error |-> "AssertionError", node |-> 0])

(* lines 197-201: downstream_dict (forward) and upstream_dict *)
Neighbours(es, n, forward) ==
    IF forward THEN {es[i].node1 : i \in {k \in 1..Len(es) : es[k].node0 = n}}
    ELSE {es[i].node0 : i \in {k \in 1..Len(es) : es[k].node1 = n}}

(* lines 207-212 and 217-222: depth rounds of the walk; step holds the       *)
(* nodes found in the last round                                             *)
RECURSIVE walk(_, _, _, _, _)
walk(include, step, depth, es, forward) ==
    IF depth <= 0 THEN include
    ELSE With(UNION {Neighbours(es, n, forward) : n \in step}, LAMBDA next_step_nodes :
           walk(include \cup next_step_nodes, next_step_nodes, depth - 1, es, forward))

(* lines 188-224 *)
_filter_nodes_for_subset(es, target_node, sp) ==
    walk(walk({target_node}, {target_node}, sp.downstream_depth, es, TRUE),
         {target_node}, sp.upstream_depth, es, FALSE)


(* a variant that keeps an edge when one of its ends is kept *)
_filter_edges_for_subset_either(new_nodes, es) ==
    SelectSeq(es, LAMBDA e : e.node0 \in new_nodes \/ e.node1 \in new_nodes)

(* lines 227-238 *)
_filter_edges_for_subset(new_nodes, es) ==
    SelectSeq(es, LAMBDA e : e.node0 \in new_nodes /\ e.node1 \in new_nodes)

(* lines 241-260 *)
_filter_groups_for_subset(G, fgs, new_nodes) ==
    With({n \in Range(Flatten([i \in 1..Len(fgs) |-> group_all_nodes(G, fgs[i])])) :
            n \notin new_nodes},
         LAMBDA drop :
    With([g \in 1..Len(G) |->
            [G[g] EXCEPT !.nodes = SelectSeq(@, LAMBDA n : n \notin drop)]],
         LAMBDA G1 :
    With(SelectSeq(fgs, LAMBDA g : group_all_nodes(G1, g) # << >>),
         LAMBDA new_file_groups :
    With(Range(AllSubgroups(G1, new_file_groups)), LAMBDA reach :
      [G |-> [g \in 1..Len(G1) |->
                IF g \in reach
                THEN [G1[g] EXCEPT !.subgroups =
                        SelectSeq(@, LAMBDA sg : group_all_nodes(G1, sg) # << >>)]
                ELSE G1[g]],
       fgs |-> new_file_groups]))))

(* lines 263-276 *)
_filter_for_subset(S, target_node, sp) ==
    With(_filter_nodes_for_subset(S.edges, target_node, sp), LAMBDA new_nodes :
    With(_filter_groups_for_subset(S.G, S.fgs, new_nodes), LAMBDA fg :
      [S EXCEPT !.G = fg.G, !.fgs = fg.fgs, !.AN = SetToSeq(new_nodes),
                !.edges = _filter_edges_for_subset(new_nodes, S.edges)]))

(* lines 1826-1842: main builds the SubsetParams before it calls code2flow *)
Main ==
    /\ pc = "main"
    /\ \E g \in {generate(run.args.target_function, run.args.upstream_depth,
                          run.args.downstream_depth)} :
          /\ run' = [run EXCEPT !.subset_params = g.params,
                                !.error = g.error,
                                !.raised_by = IF g.error # "" THEN "generate" ELSE @]
          /\ pc' = IF g.error # "" THEN "error" ELSE "code2flow"
    /\ UNCHANGED <<project, cfg, groups, nodes, file_groups, all_nodes, lib_sigs,
                   lib_groups, missing_keys, missing_group, bad_calls, edges, cursor,
                   links, probe>>

(* lines 1597-1654: the checks of code2flow, then the call of map_it *)
Code2flow ==
    /\ pc = "code2flow"
    /\ \E err \in {code2flow_precheck(run.args)} :
          /\ run' = [run EXCEPT !.error = err,
                                !.raised_by = IF err # "" THEN "code2flow" ELSE @]
          /\ pc' = IF err # "" THEN "error" ELSE "parse"
    /\ UNCHANGED <<project, cfg, groups, nodes, file_groups, all_nodes, lib_sigs,
                   lib_groups, missing_keys, missing_group, bad_calls, edges, cursor,
                   links, probe>>

(* lines 1656-1658: map_it has returned *)
FilterForSubset ==
    /\ pc = "done"
    /\ run.entry # "map_it"
    /\ \E t \in {IF run.subset_params.on
                 THEN _find_target_node(groups, nodes, all_nodes,
                                        run.subset_params.target_function)
                 ELSE [error |-> "", node |-> 0]} :
          /\ run' = [run EXCEPT
                       !.graph = [all_nodes |-> all_nodes, edges |-> edges,
                                  file_groups |-> file_groups, groups |-> groups],
                       !.target = t.node,
                       !.error = t.error,
                       !.raised_by = IF t.error # "" THEN "_find_target_node" ELSE @]
          /\ pc' = IF t.error # "" THEN "error" ELSE "filtered"
          /\ IF t.node # 0
             THEN Install(_filter_for_subset(CurS, t.node, run.subset_params))
             ELSE Install(CurS)
    /\ UNCHANGED <<project, cfg, cursor, probe>>

(* The runs of the command line: every combination of target and depths on   *)
(* one project, and the accepted combinations on a family of call chains     *)
(*                                                                           *)
(*   a.py   def a(): b()             [class K:                               *)
(*          def b(): c() | pass          def c(self): d()]                   *)
(*          def c(): d() | a(); d()                                          *)
(*          def d(): pass | b()                                              *)

MaxDepth == 2

ChainFile(bbody, cbody, dbody, withK) ==
    FileDef("a", << >>,
        <<FuncDef("a", 1, << >>, Numbered(Call0(NameE("b")), 1)),
          FuncDef("b", 10, << >>, Numbered(bbody, 10)),
          FuncDef("c", 20, << >>, Numbered(cbody, 20)),
          FuncDef("d", 30, << >>, Numbered(dbody, 30))>>,
        IF withK
        THEN <<ClassDef("K", 40, << >>,
                        <<FuncDef("c", 41, <<"self">>, Numbered(Call0(NameE("d")), 41))>>,
                        << >>)>>
        ELSE << >>)

ChainProjects ==
    {[files |-> <<ChainFile(bb, cb, db, k)>>, sources |-> <<1>>] :
        bb \in {Call0(NameE("c")), <<PassS(0)>>},
        cb \in {Call0(NameE("d")), Call0(NameE("a")) \o Call0(NameE("d"))},
        db \in {<<PassS(0)>>, Call0(NameE("b"))},
        k \in BOOLEAN}

(* def a(): b() and def b(): pass, nothing else *)
TwoFunctions ==
    [files |-> <<FileDef("a", << >>,
                         <<FuncDef("a", 1, << >>, Numbered(Call0(NameE("b")), 1)),
                           FuncDef("b", 10, << >>, <<PassS(11)>>)>>,
                         << >>)>>,
     sources |-> <<1>>]

TheChain ==
    [files |-> <<ChainFile(Call0(NameE("c")), Call0(NameE("d")), <<PassS(0)>>, TRUE)>>,
     sources |-> <<1>>]

TargetNames == {"c", "K.c", "a::K.c", "a::c", "zz"}

CliArgs ==
    [target_function : {""} \cup TargetNames,
     upstream_depth : -1..MaxDepth, downstream_depth : -1..MaxDepth,
     output_file : {<<"out", "gv">>, <<"out">>, <<"out", "txt">>},
     exclude_functions : {"list"}]

ApiArgs ==
    [target_function : {""}, upstream_depth : {0}, downstream_depth : {0},
     output_file : {<<"out", "gv">>, <<"out", "txt">>},
     exclude_functions : {"list", "str"}]

AcceptedArgs ==
    {a \in CliArgs : /\ a.output_file = <<"out", "gv">>
                     /\ generate(a.target_function, a.upstream_depth,
                                 a.downstream_depth).error = ""}

CliConfigs ==
    [heuristics : {TRUE}, no_trimming : BOOLEAN, show_libraries : {FALSE},
     alias_labels : {FALSE}, skip_parse_errors : {FALSE}]

CliProjects == ChainProjects \cup {TwoFunctions}

CliRuns ==
    {[entry |-> "main", args |-> a, project |-> TheChain, cfg |-> c] :
        a \in CliArgs, c \in {k \in CliConfigs : ~k.no_trimming}}
    \cup {[entry |-> "code2flow", args |-> a, project |-> TheChain, cfg |-> c] :
            a \in ApiArgs, c \in {k \in CliConfigs : ~k.no_trimming}}
    \cup {[entry |-> "main", args |-> a, project |-> p, cfg |-> c] :
            a \in AcceptedArgs, p \in CliProjects, c \in CliConfigs}

InitCli ==
    /\ \E r \in CliRuns :
          /\ project = r.project
          /\ cfg = r.cfg
          /\ run = [NoRun EXCEPT !.entry = r.entry, !.args = r.args]
          /\ pc = r.entry
    /\ groups = << >>
    /\ nodes = << >>
    /\ file_groups = << >>
    /\ all_nodes = << >>
    /\ lib_sigs = EmptyMap
    /\ lib_groups = << >>
    /\ missing_keys = EmptyMap
    /\ missing_group = 0
    /\ bad_calls = << >>
    /\ edges = << >>
    /\ links = << >>
    /\ cursor = [snap |-> << >>, i |-> 1]
    /\ probe = NoProbe

NextCli ==
    \/ Main
    \/ Code2flow
    \/ ParseFiles
    \/ Consolidate
    \/ ResolveVariables
    \/ PropagateArguments
    \/ SynthesizeLibraries
    \/ SynthesizeInstanceLibraries
    \/ AttachLibraries
    \/ FindLinks
    \/ FinishLinks
    \/ StripLibraries
    \/ Trim
    \/ FilterForSubset

SpecCli == InitCli /\ [][NextCli]_vars

-----------------------------------------------------------------------------
(* Runs of map_it on sources of which some do not parse                      *)
(*                                                                           *)
(*   a.py  [import b] [import c]     b.py  [import a | import c]             *)
(*         def fa(): pass                  def fb(): pass   | def fb(:       *)
(*   c.py  def fc(): pass | def fc(:                                         *)

ParseFile(token, imports, bad) ==
    FileDef(token,
            [i \in 1..Len(imports) |-> ImportS(i, <<imports[i]>>, "")]
              \o (IF bad THEN <<SyntaxErrorS(Len(imports) + 1)>> ELSE << >>),
            IF bad THEN << >>
            ELSE <<FuncDef("f" \o token, Len(imports) + 1, << >>,
                           <<PassS(Len(imports) + 2)>>)>>,
            << >>)

ParseProjects ==
    {[files |-> <<ParseFile("a", ia, FALSE), ParseFile("b", ib, bb),
                  ParseFile("c", << >>, bc)>>,
      sources |-> src] :
        ia \in {<< >>, <<"b">>, <<"c">>, <<"b", "c">>, <<"c", "b">>},
        ib \in {<< >>, <<"a">>, <<"c">>},
        bb \in BOOLEAN, bc \in BOOLEAN,
        src \in {<<1>>, <<1, 2>>, <<2, 1>>, <<1, 3>>, <<3, 1>>, <<1, 2, 3>>}}

ParseConfigs ==
    [heuristics : BOOLEAN, no_trimming : BOOLEAN, show_libraries : {FALSE},
     alias_labels : {FALSE}, skip_parse_errors : BOOLEAN]

InitParse ==
    /\ project \in ParseProjects
    /\ cfg \in ParseConfigs
    /\ pc = "parse"
    /\ groups = << >>
    /\ nodes = << >>
    /\ file_groups = << >>
    /\ all_nodes = << >>
    /\ lib_sigs = EmptyMap
    /\ lib_groups = << >>
    /\ missing_keys = EmptyMap
    /\ missing_group = 0
    /\ bad_calls = << >>
    /\ edges = << >>
    /\ links = << >>
    /\ cursor = [snap |-> << >>, i |-> 1]
    /\ probe = NoProbe
    /\ run = NoRun

SpecParse == InitParse /\ [][Next]_vars

-----------------------------------------------------------------------------
(* Runs of map_it on the idioms of indirect dispatch                         *)
(*                                                                           *)
(*   a.py  [handlers = {'x': g}] [handlers['x']()]                           *)
(*         def f(): pass                                                     *)
(*         def g(): pass                                                     *)
(*         def caller():                                                     *)
(*             handlers = {'x': f}     in either order, with other keys,     *)
(*             handlers['x']()         or with a name no function has        *)

OneKey(key, name) == MapSet(EmptyMap, key, name)

DictFile(top, body) ==
    FileDef("a", Numbered(top, 0),
            <<FuncDef("f", 10, << >>, <<PassS(11)>>),
              FuncDef("g", 20, << >>, <<PassS(21)>>),
              FuncDef("caller", 30, << >>, Numbered(body, 30))>>,
            << >>)

DictBodies ==
    { <<DictS(0, "handlers", OneKey("x", "f")), ExprS(0, SubE("handlers", "x"), << >>)>>,
      <<ExprS(0, SubE("handlers", "x"), << >>), DictS(0, "handlers", OneKey("x", "f"))>>,
      <<DictS(0, "handlers", MapSet(OneKey("x", "f"), "y", "g")),
        ExprS(0, SubE("handlers", "y"), << >>)>>,
      <<DictS(0, "handlers", OneKey("y", "f")), ExprS(0, SubE("handlers", "x"), << >>)>>,
      <<DictS(0, "handlers", OneKey("x", "zz")), ExprS(0, SubE("handlers", "x"), << >>)>>,
      <<DictS(0, "handlers", EmptyMap), ExprS(0, SubE("handlers", "x"), << >>)>>,
      <<ExprS(0, SubE("handlers", "x"), << >>)>>,
      <<PassS(0)>> }

DictTops ==
    { << >>,
      <<DictS(0, "handlers", OneKey("x", "g"))>>,
      <<DictS(0, "handlers", OneKey("x", "g")), ExprS(0, SubE("handlers", "x"), << >>)>> }

DictProjects ==
    {[files |-> <<DictFile(top, body)>>, sources |-> <<1>>] :
        top \in DictTops, body \in DictBodies}

(* handlers = {'x': f} and handlers['x']() in caller *)
HandlersOfF ==
    [files |-> <<DictFile(<< >>,
                          <<DictS(0, "handlers", OneKey("x", "f")),
                            ExprS(0, SubE("handlers", "x"), << >>)>>)>>,
     sources |-> <<1>>]

(*   a.py  class Base:    def m(self): pass   [def Inner(self): pass]        *)
(*         class Base2:   def m2(self): pass  [def Inner(self): pass]        *)
(*         class Derived(Base, Base2):                                       *)
(*             [class Inner: pass | def __init__(self): pass]                *)
(*             [def Inner(self): pass]                                       *)
(*             def c(self): self.Inner()                                     *)
NestedFile(inBase, inBase2, own, nested) ==
    FileDef("a", << >>, << >>,
        <<ClassDef("Base", 1, << >>,
                   <<FuncDef("m", 2, <<"self">>, <<PassS(3)>>)>>
                     \o (IF inBase THEN <<FuncDef("Inner", 4, <<"self">>, <<PassS(5)>>)>>
                         ELSE << >>),
                   << >>),
          ClassDef("Base2", 10, << >>,
                   <<FuncDef("m2", 11, <<"self">>, <<PassS(12)>>)>>
                     \o (IF inBase2 THEN <<FuncDef("Inner", 13, <<"self">>, <<PassS(14)>>)>>
                         ELSE << >>),
                   << >>),
          ClassDef("Derived", 20, <<"Base", "Base2">>,
                   (IF own THEN <<FuncDef("Inner", 24, <<"self">>, <<PassS(25)>>)>>
                    ELSE << >>)
                     \o <<FuncDef("c", 26, <<"self">>,
                                  <<ExprS(27, AttrE("self", "Inner"), << >>)>>)>>,
                   IF nested = "none" THEN << >>
                   ELSE <<ClassDef("Inner", 21, << >>,
                                   IF nested = "ctor"
                                   THEN <<FuncDef("__init__", 22, <<"self">>,
                                                  <<PassS(23)>>)>>
                                   ELSE << >>,
                                   << >>)>>)>>)

NestedProjects ==
    {[files |-> <<NestedFile(b1, b2, own, nested)>>, sources |-> <<1>>] :
        b1 \in BOOLEAN, b2 \in BOOLEAN, own \in BOOLEAN,
        nested \in {"none", "plain", "ctor"}}

IdiomProjects == DictProjects \cup NestedProjects

IdiomConfigs ==
    [heuristics : BOOLEAN, no_trimming : BOOLEAN, show_libraries : {FALSE},
     alias_labels : BOOLEAN, skip_parse_errors : {FALSE}]

InitIdioms ==
    /\ project \in IdiomProjects
    /\ cfg \in IdiomConfigs
    /\ pc = "parse"
    /\ groups = << >>
    /\ nodes = << >>
    /\ file_groups = << >>
    /\ all_nodes = << >>
    /\ lib_sigs = EmptyMap
    /\ lib_groups = << >>
    /\ missing_keys = EmptyMap
    /\ missing_group = 0
    /\ bad_calls = << >>
    /\ edges = << >>
    /\ links = << >>
    /\ cursor = [snap |-> << >>, i |-> 1]
    /\ probe = NoProbe
    /\ run = NoRun

SpecIdioms == InitIdioms /\ [][Next]_vars

-----------------------------------------------------------------------------
(* The constructor of Variable on drawn arguments, as the tests of          *)
(* test_variable.py call it, beside the runs of map_it that build the       *)
(* Variables of a graph                                                     *)

VariableTokens == {<< >>, <<"a">>, <<"z">>, <<"var1">>, <<"os", "path">>}

(* a tuple, as its values are of different kinds *)
VariablePointsTo ==
    << NoneValue,
       [kind |-> "dict", v |-> EmptyMap],
       [kind |-> "dict", v |-> OneKey("x", "f")],
       [kind |-> "int", v |-> 0],
       [kind |-> "int", v |-> 1],
       [kind |-> "str", v |-> << >>],
       [kind |-> "str", v |-> <<"x">>],
       [kind |-> "str", v |-> <<"module", "name">>],
       [kind |-> "str", v |-> UNKNOWN_VAR] >>

VariableLines == {0, 1, 12}

(* Variable(token, points_to, line_number) returns or raises *)
ConstructVariable ==
    /\ pc = "Variable"
    /\ \E r \in {Variable(run.args.token, run.args.points_to, run.args.line_number)} :
          /\ run' = [run EXCEPT !.error = r.error, !.made = r.made,
                                !.raised_by = IF r.error # "" THEN "Variable" ELSE @]
          /\ pc' = IF r.error # "" THEN "error" ELSE "constructed"
    /\ UNCHANGED <<project, cfg, groups, nodes, file_groups, all_nodes, lib_sigs,
                   lib_groups, missing_keys, missing_group, bad_calls, edges, cursor,
                   links, probe>>

InitVariable ==
    /\ \/ /\ pc = "Variable"
          /\ \E t \in VariableTokens, i \in 1..Len(VariablePointsTo), l \in VariableLines :
                run = [NoRun EXCEPT !.entry = "Variable",
                                    !.args = [token |-> t, points_to |-> VariablePointsTo[i],
                                              line_number |-> l]]
          /\ project = HandlersOfF
          /\ cfg \in {c \in IdiomConfigs : c.heuristics /\ ~c.no_trimming /\ ~c.alias_labels}
       \/ /\ pc = "parse"
          /\ run = NoRun
          /\ project \in IdiomProjects
          /\ cfg \in IdiomConfigs
    /\ groups = << >>
    /\ nodes = << >>
    /\ file_groups = << >>
    /\ all_nodes = << >>
    /\ lib_sigs = EmptyMap
    /\ lib_groups = << >>
    /\ missing_keys = EmptyMap
    /\ missing_group = 0
    /\ bad_calls = << >>
    /\ edges = << >>
    /\ links = << >>
    /\ cursor = [snap |-> << >>, i |-> 1]
    /\ probe = NoProbe

NextVariable == ConstructVariable \/ Next

SpecVariable == InitVariable /\ [][NextVariable]_vars

-----------------------------------------------------------------------------
(* Runs of map_it on the idioms its resolution strategies are written for    *)
(*                                                                           *)
(*   a.py  [import zz as g | from b import g]      b.py  def g(): pass       *)
(*         def g(): return h                                                 *)
(*         def h(): pass                                                     *)
(*         def f(): [import zz as g]  g() | g()()  [import zz as g]          *)
(* No file zz is on disk, so a name bound to it ends as the unknown module.  *)

UnknownModuleTops ==
    { << >>,
      <<ImportS(1, <<"zz">>, "g")>>,
      <<ImportFromS(1, <<"b">>, <<"g">>, "")>> }

UnknownModuleBodies ==
    { <<ExprS(0, NameE("g"), << >>)>>,
      <<ExprS(0, CallE("g"), << >>)>>,
      <<ImportS(0, <<"zz">>, "g"), ExprS(0, NameE("g"), << >>)>>,
      <<ImportS(0, <<"zz">>, "g"), ExprS(0, CallE("g"), << >>)>>,
      <<ExprS(0, NameE("g"), << >>), ImportS(0, <<"zz">>, "g")>> }

UnknownModuleFile(top, body) ==
    FileDef("a", top,
            <<FuncDef("g", 2, << >>, <<ReturnS(3, "name", "h")>>),
              FuncDef("h", 4, << >>, <<PassS(5)>>),
              FuncDef("f", 10, << >>, Numbered(body, 10))>>,
            << >>)

UnknownModuleProjects ==
    {[files |-> <<UnknownModuleFile(top, body),
                  FileDef("b", << >>, <<FuncDef("g", 1, << >>, <<PassS(2)>>)>>, << >>)>>,
      sources |-> IF \E i \in 1..Len(top) : top[i].s = "importfrom"
                  THEN <<1, 2>> ELSE <<1>>] :
        top \in UnknownModuleTops, body \in UnknownModuleBodies}

(*   a.py  [class Foo: <methods>]                  b.py  [class Foo: ...]    *)
(*         [class Outer:                                                     *)
(*              def o(self): pass                                            *)
(*              class Foo: <methods>]                                        *)
(*         def f(): Foo()                                                    *)
(*         def h(): Foo()                                                    *)
(* <methods> is nothing but pass, def m, def __init__, or both               *)
CtorMethods(kind) ==
    (IF kind \in {"ctor", "both"}
     THEN <<FuncDef("__init__", 42, <<"self">>, <<PassS(43)>>)>> ELSE << >>)
    \o (IF kind \in {"method", "both"}
        THEN <<FuncDef("m", 44, <<"self">>, <<PassS(45)>>)>> ELSE << >>)

CtorFiles(where, kind) ==
    LET Foo == ClassDef("Foo", 41, << >>, CtorMethods(kind), << >>)
    IN << FileDef("a", << >>,
                  <<FuncDef("f", 1, << >>, <<ExprS(2, NameE("Foo"), << >>)>>),
                    FuncDef("h", 3, << >>, <<ExprS(4, NameE("Foo"), << >>)>>)>>,
                  CASE where = "a" -> <<Foo>>
                    [] where = "nested" ->
                         <<ClassDef("Outer", 30, << >>,
                                    <<FuncDef("o", 31, <<"self">>, <<PassS(32)>>)>>,
                                    <<Foo>>)>>
                    [] OTHER -> << >>),
          FileDef("b", << >>, << >>, IF where = "b" THEN <<Foo>> ELSE << >>) >>

CtorProjects ==
    {[files |-> CtorFiles(where, kind), sources |-> <<1, 2>>] :
        where \in {"a", "b", "nested"}, kind \in {"empty", "method", "ctor", "both"}}

(*   a.py  [def make(): return helper | return zz | return lambda: 1]        *)
(*         def helper(): pass                                                *)
(*         def other(): pass                                                 *)
(*         def f(): make()() ; make()()      or x.make()()                   *)
(*         def h(): make()()                 or x.make()()                   *)
(*         [class K:                                                         *)
(*              def make(self): return other]                                *)
FactoryFile(where, fret, callee) ==
    FileDef("a", << >>,
            (IF where \in {"file", "both"}
             THEN <<FuncDef("make", 1, << >>, <<fret>>)>> ELSE << >>)
            \o <<FuncDef("helper", 3, << >>, <<PassS(4)>>),
                 FuncDef("other", 5, << >>, <<PassS(6)>>),
                 FuncDef("f", 10, << >>, <<ExprS(11, callee, << >>),
                                           ExprS(12, callee, << >>)>>),
                 FuncDef("h", 20, << >>, <<ExprS(21, callee, << >>)>>)>>,
            IF where \in {"class", "both"}
            THEN <<ClassDef("K", 30, << >>,
                            <<FuncDef("make", 31, <<"self">>,
                                      <<ReturnS(32, "name", "other")>>)>>, << >>)>>
            ELSE << >>)

FactoryReturns ==
    {ReturnS(2, "name", "helper"), ReturnS(2, "name", "zz"), ReturnS(2, "lambda", "")}

FactoryProjects ==
    {[files |-> <<FactoryFile(where, fret, callee)>>, sources |-> <<1>>] :
        where \in {"file", "class", "both"}, fret \in FactoryReturns,
        callee \in {CallE("make"), CallAttrE("x", "make")}}

(*   a.py  def g(): pass                        b.py  [def trace(a): pass]   *)
(*         def k(): pass                                                     *)
(*         def trace(a, b): a() ; b()                                        *)
(*         def f(): trace(<arguments>)                                       *)
ArgumentLists ==
    { << >>, <<NameA("g")>>, <<NameA("g"), NameA("k")>>, <<ConstA, NameA("g")>>,
      <<NameA("g"), ConstA>>, <<NameA("zz"), NameA("g")>>, <<AttrA("m", "g"), NameA("k")>>,
      <<NameA("g"), NameA("k"), NameA("g")>> }

ArgumentFiles(args, second) ==
    << FileDef("a", << >>,
               <<FuncDef("g", 1, << >>, <<PassS(2)>>),
                 FuncDef("k", 3, << >>, <<PassS(4)>>),
                 FuncDef("trace", 5, <<"a", "b">>,
                         <<ExprS(6, NameE("a"), << >>), ExprS(7, NameE("b"), << >>)>>),
                 FuncDef("f", 10, << >>, <<ExprS(11, NameE("trace"), args)>>)>>,
               << >>) >>
    \o (IF second
        THEN <<FileDef("b", << >>, <<FuncDef("trace", 1, <<"a">>, <<PassS(2)>>)>>, << >>)>>
        ELSE << >>)

ArgumentProjects ==
    {[files |-> ArgumentFiles(args, second),
      sources |-> IF second THEN <<1, 2>> ELSE <<1>>] :
        args \in ArgumentLists, second \in BOOLEAN}

(*   a.py  [import requests]                                                 *)
(*         def f(): requests.get() | requests.post() | pass                 *)
(*         def h(): x.get()                                                  *)
(*   b.py  [class K:                                                         *)
(*              def get(self): pass]                                         *)
LibraryBodies ==
    { <<ExprS(11, AttrE("requests", "get"), << >>)>>,
      <<ExprS(11, AttrE("requests", "post"), << >>)>>,
      <<PassS(11)>> }

LibraryFiles(imported, fbody, method) ==
    << FileDef("a", IF imported THEN <<ImportS(1, <<"requests">>, "")>> ELSE << >>,
               <<FuncDef("f", 10, << >>, fbody),
                 FuncDef("h", 20, << >>, <<ExprS(21, AttrE("x", "get"), << >>)>>)>>,
               << >>),
       FileDef("b", << >>, << >>,
               IF method
               THEN <<ClassDef("K", 30, << >>,
                               <<FuncDef("get", 31, <<"self">>, <<PassS(32)>>)>>, << >>)>>
               ELSE << >>) >>

LibraryProjects ==
    {[files |-> LibraryFiles(imported, fbody, method), sources |-> <<1, 2>>] :
        imported \in BOOLEAN, fbody \in LibraryBodies, method \in BOOLEAN}

ResolveProjects ==
    UnknownModuleProjects \cup CtorProjects \cup FactoryProjects \cup ArgumentProjects
    \cup LibraryProjects

ResolveConfigs ==
    [heuristics : BOOLEAN, no_trimming : BOOLEAN, show_libraries : {FALSE},
     alias_labels : BOOLEAN, skip_parse_errors : {FALSE}]

InitResolve ==
    /\ project \in ResolveProjects
    /\ cfg \in ResolveConfigs
    /\ pc = "parse"
    /\ groups = << >>
    /\ nodes = << >>
    /\ file_groups = << >>
    /\ all_nodes = << >>
    /\ lib_sigs = EmptyMap
    /\ lib_groups = << >>
    /\ missing_keys = EmptyMap
    /\ missing_group = 0
    /\ bad_calls = << >>
    /\ edges = << >>
    /\ links = << >>
    /\ cursor = [snap |-> << >>, i |-> 1]
    /\ probe = NoProbe
    /\ run = NoRun

SpecResolve == InitResolve /\ [][Next]_vars

-----------------------------------------------------------------------------
(* Properties of the resolution, read off the links: links[i] is what        *)
(* _find_link_for_call returned for one call site and what map_it did with   *)
(* it.                                                                       *)

InFile(n, token) == groups[top_group(groups, nodes[n].parent)].token = token

InDerived(a) == nodes[a].parent # 0 /\ groups[nodes[a].parent].token = "Derived"

DefinesOwn(g, token) ==
    \E n \in 1..Len(nodes) : nodes[n].parent = g /\ nodes[n].token = token

(* the method m of the class Base that stands in the file of node a *)
IsBaseMethod(a, n) ==
    /\ n # 0
    /\ nodes[n].token = "m"
    /\ groups[nodes[n].parent].token = "Base"
    /\ top_group(groups, nodes[n].parent) = top_group(groups, nodes[a].parent)

(* C1: a call that resolves to two or more candidates is recorded among the  *)
(* ambiguous calls and gets no edge at all, neither to one of the candidates *)
(* nor to a synthesized placeholder.                                         *)
C1_AmbiguousCallGetsNoEdge ==
    \A i \in 1..Len(links) :
        links[i].bad =>
            /\ \E k \in 1..Len(bad_calls) : bad_calls[k] = links[i].call
            /\ links[i].edge = 0

(* what a link or a verdict says was returned *)
Outcome(strat, node, bad, cands, synth) ==
    [strat |-> strat, node |-> node, bad |-> bad, cands |-> cands, synth |-> synth]

LinkOutcome(lk) ==
    Outcome(lk.strat, IF lk.synth = "none" THEN lk.node_b ELSE 0, lk.bad, lk.cands,
            lk.synth)

Applies(lk, name) ==
    \E k \in 1..Len(lk.verdicts) : lk.verdicts[k].hit /\ lk.verdicts[k].strat = name

(* the verdict of the first strategy of a priority order that returns *)
FirstIn(order, lk) ==
    With(SelectSeq(order, LAMBDA name : Applies(lk, name)), LAMBDA named :
      IF named = << >> THEN Outcome("none", 0, FALSE, << >>, "none")
      ELSE With(CHOOSE k \in 1..Len(lk.verdicts) :
                    lk.verdicts[k].hit /\ lk.verdicts[k].strat = named[1],
                LAMBDA k : Outcome(lk.verdicts[k].strat, lk.verdicts[k].node,
                                   lk.verdicts[k].bad, lk.verdicts[k].cands,
                                   lk.verdicts[k].synth)))

DocumentedOrder ==
    <<"super", "self", "unknown_super", "lib_signature", "instance_lib", "variable",
      "factory", "direct">>

CodeOrder ==
    <<"super", "self", "lib_signature", "unknown_super", "instance_lib", "variable",
      "factory", "direct">>

(* C2 as the specification states it: every call gets the result of the      *)
(* first strategy that returns in the order super, self, unknown owner with  *)
(* super, library signature, instance-variable library, variable, factory,   *)
(* direct name.                                                              *)
C2_DocumentedPriorityOrder ==
    \A i \in 1..Len(links) : LinkOutcome(links[i]) = FirstIn(DocumentedOrder, links[i])

(* C2, amended: every call gets the result of the first strategy that        *)
(* returns in the order super, self, library signature, unknown owner with   *)
(* super, instance-variable library, variable, factory, direct name; a       *)
(* library-signature match wins over a variable match when both apply.       *)
C2_CodePriorityOrder ==
    \A i \in 1..Len(links) :
        /\ LinkOutcome(links[i]) = FirstIn(CodeOrder, links[i])
        /\ ( /\ Applies(links[i], "lib_signature")
             /\ Applies(links[i], "variable")
             /\ ~Applies(links[i], "super")
             /\ ~Applies(links[i], "self") ) => links[i].strat = "lib_signature"

C2_LibraryBeatsVariable ==
    \E i \in 1..Len(links) :
        /\ Applies(links[i], "lib_signature")
        /\ Applies(links[i], "variable")
        /\ links[i].strat = "lib_signature"
        /\ nodes[links[i].node_b].is_library

(* C3: for every call the resolution returns exactly one of a single node    *)
(* with no ambiguity signal, an ambiguity signal with at least two           *)
(* candidates and no node, or nothing; never a node together with an         *)
(* ambiguity signal.                                                         *)
C3_ExactlyOneOutcome ==
    \A i \in 1..Len(links) :
        LET single == links[i].node_b # 0 /\ ~links[i].bad /\ links[i].cands = << >>
            ambiguous == /\ links[i].bad
                         /\ links[i].node_b = 0
                         /\ Len(links[i].cands) >= 2
            nothing == links[i].node_b = 0 /\ ~links[i].bad /\ links[i].cands = << >>
        IN /\ single \/ ambiguous \/ nothing
           /\ ~(single /\ ambiguous) /\ ~(single /\ nothing) /\ ~(ambiguous /\ nothing)
           /\ ~(links[i].node_b # 0 /\ links[i].bad)

C3_AllThreeOutcomes ==
    /\ \E i \in 1..Len(links) : links[i].node_b # 0 /\ ~links[i].bad
    /\ \E i \in 1..Len(links) : links[i].bad /\ Len(links[i].cands) >= 2
    /\ \E i \in 1..Len(links) : links[i].node_b = 0 /\ ~links[i].bad

(* C4: with the heuristics enabled, a call self.m() in a method of           *)
(* Derived(Base), where Base defines m and Derived does not, resolves to     *)
(* Base.m and to no other node named m, whatever other methods or functions  *)
(* named m exist.                                                            *)
C4_SelfCallResolvesToBase ==
    cfg.heuristics =>
        \A i \in 1..Len(links) :
            ( /\ links[i].call.owner = <<"self">>
              /\ links[i].call.token = "m"
              /\ InDerived(links[i].node_a)
              /\ ~DefinesOwn(nodes[links[i].node_a].parent, "m") )
            => /\ ~links[i].bad
               /\ IsBaseMethod(links[i].node_a, links[i].node_b)
               /\ links[i].target = links[i].node_b

(* the labels EdgeLabel gives the edge of a call resolved through super *)
ViaSuperLabels == {"via super", "via super (via super)"}

(* C5: with the heuristics enabled, the call super().m() in Derived.m, where *)
(* Derived(Base) overrides m, resolves to Base.m, not to Derived.m and not   *)
(* to a placeholder, and its edge is annotated 'via super'.                  *)
C5_SuperCallResolvesToBase ==
    cfg.heuristics =>
        \A i \in 1..Len(links) :
            ( /\ links[i].call.owner = UNKNOWN_VAR
              /\ ~links[i].call.is_library
              /\ links[i].call.token = "m"
              /\ InDerived(links[i].node_a)
              /\ nodes[links[i].node_a].token = "m" )
            => /\ IsBaseMethod(links[i].node_a, links[i].target)
               /\ links[i].edge # 0
               /\ links[i].label \in ViaSuperLabels

(* the statement of f that made the call of a link, when f made it *)
StatementOf(lk) ==
    SelectSeq(project.files[1].funcs[2].body, LAMBDA st : st.line = lk.call.line)

(* the call is written v.k() and an earlier statement of the same function   *)
(* is v = module.Ctor() for an imported module                               *)
OnLibraryInstance(lk) ==
    /\ nodes[lk.node_a].token = "f"
    /\ InFile(lk.node_a, "a")
    /\ \E j \in 1..Len(StatementOf(lk)) :
        LET st == StatementOf(lk)[j]
        IN /\ st.s = "expr"
           /\ st.func.k = "attr"
           /\ st.func.attr = lk.call.token
           /\ \E v \in 1..Len(nodes[lk.node_a].variables) :
                LET var == nodes[lk.node_a].variables[v]
                IN /\ var.token = <<st.func.id>>
                   /\ var.line < lk.call.line
                   /\ var.kind = "call"
                   /\ var.v.is_library

(* C6: after v = module.Ctor() with module imported, a later v.k() of the    *)
(* same function gets an edge to the synthesized library node module.k; it   *)
(* is neither dropped nor linked to a NotFound placeholder.                  *)
C6_InstanceCallReachesLibrary ==
    \A i \in 1..Len(links) :
        OnLibraryInstance(links[i]) =>
            /\ links[i].edge # 0
            /\ nodes[links[i].target].is_library
            /\ ~nodes[links[i].target].missing
            /\ nodes[links[i].target].token = links[i].call.token
            /\ groups[nodes[links[i].target].parent].token = "lib"

(* the call was not resolved and got the NotFound node of its signature *)
IsMissing(lk) == lk.node_b = 0 /\ lk.target # 0 /\ nodes[lk.target].missing

(* the call was not resolved and got the node of a built-in callable *)
IsBuiltin(lk) ==
    /\ lk.node_b = 0
    /\ lk.target # 0
    /\ nodes[lk.target].is_library
    /\ groups[nodes[lk.target].parent].token = "builtins"

NoRepeats(seq) == \A i, j \in 1..Len(seq) : seq[i] = seq[j] => i = j

(* C7: two unresolved calls of the same textual signature share one NotFound *)
(* node, the NotFound group holds exactly one node for every unresolved      *)
(* signature, and the builtins group holds one node for every name of a      *)
(* built-in callable.                                                        *)
C7_OnePlaceholderPerSignature ==
    /\ \A i, j \in 1..Len(links) :
          ( /\ IsMissing(links[i]) /\ IsMissing(links[j])
            /\ to_string(links[i].call) = to_string(links[j].call) )
          => links[i].target = links[j].target
    /\ \A i, j \in 1..Len(links) :
          ( /\ IsBuiltin(links[i]) /\ IsBuiltin(links[j])
            /\ links[i].call.token = links[j].call.token )
          => links[i].target = links[j].target
    /\ missing_group # 0 =>
          /\ NoRepeats(groups[missing_group].nodes)
          /\ Len(groups[missing_group].nodes)
               = Cardinality({to_string(links[i].call) :
                                i \in {k \in 1..Len(links) : IsMissing(links[k])}})
    /\ \A n1, n2 \in 1..Len(nodes) :
          ( /\ nodes[n1].is_library /\ nodes[n2].is_library
            /\ groups[nodes[n1].parent].token = "builtins"
            /\ nodes[n1].parent = nodes[n2].parent
            /\ nodes[n1].token = nodes[n2].token ) => n1 = n2

C7_PlaceholdersShared ==
    /\ \E i, j \in 1..Len(links) :
          /\ i # j
          /\ IsMissing(links[i]) /\ IsMissing(links[j])
          /\ links[i].target = links[j].target
    /\ \E i, j \in 1..Len(links) :
          /\ i # j
          /\ IsBuiltin(links[i]) /\ IsBuiltin(links[j])
          /\ links[i].target = links[j].target

SourceTokens == {project.files[project.sources[i]].token : i \in 1..Len(project.sources)}

NoImportFollowed ==
    \A i \in 1..Len(file_groups) :
        groups[file_groups[i]].token \in SourceTokens \cup {"NotFound", "builtins"}

(* the inheritance lists as they are once map_it has consolidated them *)
NoInheritance ==
    pc # "consolidate" => \A g \in 1..Len(groups) : groups[g].inherits = << >>

(* C8 as the specification states it: with the heuristics disabled no import *)
(* is followed, every class has an empty inheritance list, and no call gets  *)
(* a result from any strategy but direct name matching.                      *)
C8_OnlyDirectMatching ==
    (~cfg.heuristics /\ pc # "parse") =>
        /\ NoImportFollowed
        /\ NoInheritance
        /\ \A i \in 1..Len(links) : links[i].strat \in {"direct", "none"}

(* C8, amended: with the heuristics disabled no import is followed, every    *)
(* class has an empty inheritance list, and no call gets a result from the   *)
(* super, self or unknown-owner strategy nor an edge labelled 'via super';   *)
(* library signatures, variables and factories still resolve calls.          *)
C8_NoInheritanceStrategies ==
    (~cfg.heuristics /\ pc # "parse") =>
        /\ NoImportFollowed
        /\ NoInheritance
        /\ \A i \in 1..Len(links) :
              /\ links[i].strat \notin {"super", "self", "unknown_super"}
              /\ ~links[i].call.via_super
              /\ links[i].label \notin ViaSuperLabels

C8_DisabledRun ==
    /\ ~cfg.heuristics
    /\ pc = "done"
    /\ \E i \in 1..Len(project.files[1].stmts) :
          project.files[1].stmts[i].name = <<"b">>
    /\ \E i \in 1..Len(links) :
          links[i].call.owner = <<"self">> /\ InDerived(links[i].node_a)
    /\ \E i \in 1..Len(links) : links[i].strat = "lib_signature"

(* the groups and the nodes that the result holds: what is reachable from    *)
(* the file groups                                                           *)
SurvivingGroups == Range(AllSubgroups(groups, file_groups))

SurvivingNodes ==
    Range(all_nodes)
        \cup UNION {Range(group_all_nodes(groups, file_groups[i])) :
                      i \in 1..Len(file_groups)}

(* C10: once the result is trimmed, trimming it again changes neither the    *)
(* nodes, the edges nor the group tree; every node that survives is an       *)
(* endpoint of an edge that survives and no group that survives is empty.    *)
C10_TrimIsFixpoint ==
    (pc = "done" /\ ~cfg.no_trimming) =>
        /\ \E again \in {trim(CurS)} :
              /\ again.G = groups
              /\ again.fgs = file_groups
              /\ again.edges = edges
              /\ Range(again.AN) = Range(all_nodes)
        /\ SurvivingNodes \subseteq nodes_with_edges(edges)
        /\ \A g \in SurvivingGroups : group_all_nodes(groups, g) # << >>

C10_TrimRemoved ==
    /\ pc = "done"
    /\ ~cfg.no_trimming
    /\ edges # << >>
    /\ \E n \in 1..Len(nodes) : n \notin SurvivingNodes
    /\ \E g \in 1..Len(groups) : g \notin SurvivingGroups /\ groups[g].gtype = CLASS

(* the extra node is unrelated to the call: neither its token nor the token  *)
(* of its group is the token or the owner of the call                        *)
Unrelated ==
    /\ probe.extra_token # probe.call.token
    /\ <<probe.extra_token>> # probe.call.owner
    /\ probe.extra_group # probe.call.token
    /\ <<probe.extra_group>> # probe.call.owner

(* the call calls the result of a factory that returns the extra node's name *)
ReturnedByFactory ==
    /\ probe.call.factory_call # ""
    /\ \E n \in 1..Len(nodes) :
          /\ nodes[n].token = probe.call.factory_call
          /\ \E k \in 1..Len(nodes[n].return_tokens) :
                nodes[n].return_tokens[k] = probe.extra_token

(* C9 as the specification states it: a call that resolves to a single node  *)
(* resolves to the same node when the node list gets one more node whose     *)
(* token and group token differ from the token and the owner of the call.    *)
C9_ExtraNodeKeepsResult ==
    (probe.on /\ Unrelated /\ probe.before.node # 0) =>
        /\ probe.after.node = probe.before.node
        /\ ~probe.after.bad

(* C9, amended: unless the call calls the result of a factory that returns   *)
(* the extra node's name, the resolution returns for the longer node list    *)
(* what it returned for the shorter one; a single resolved node stays the    *)
(* resolved node.                                                            *)
C9_ExtraNodeKeepsResultUnlessReturned ==
    (probe.on /\ Unrelated /\ ~ReturnedByFactory) =>
        /\ probe.after = probe.before
        /\ probe.before.node # 0 => probe.after.node = probe.before.node /\ ~probe.after.bad

C9_ResolvedWithExtraNode ==
    /\ probe.on
    /\ Unrelated
    /\ ~ReturnedByFactory
    /\ probe.call.factory_call # ""
    /\ probe.before.node # 0
    /\ probe.before.strat = "direct"
    /\ probe.after.node = probe.before.node

-----------------------------------------------------------------------------
(* Properties of main, code2flow and the subset selection *)

(* there is a path of at most d edges of es from a to b *)
RECURSIVE PathWithin(_, _, _, _)
PathWithin(es, a, b, d) ==
    \/ a = b
    \/ /\ d > 0
       /\ \E i \in 1..Len(es) : es[i].node0 = a /\ PathWithin(es, es[i].node1, b, d - 1)

Neighbourhood(es, t, sp) ==
    {n \in 1..Len(nodes) : \/ PathWithin(es, t, n, sp.downstream_depth)
                           \/ PathWithin(es, n, t, sp.upstream_depth)}

PlainChain ==
    [files |-> <<ChainFile(Call0(NameE("c")), Call0(NameE("d")), <<PassS(0)>>, FALSE)>>,
     sources |-> <<1>>]

TokenEdges == {<<nodes[edges[i].node0].token, nodes[edges[i].node1].token>> :
                 i \in 1..Len(edges)}

(* C11: the subset is the target, every node within downstream_depth edges   *)
(* after it and every node within upstream_depth edges before it, each once, *)
(* with exactly the edges of the graph that join two of these nodes; for the *)
(* chain a->b->c->d, target c and depths 1/1 it is b, c, d with b->c, c->d.  *)
C11_SubsetIsNeighbourhood ==
    (pc = "filtered" /\ run.subset_params.on) =>
        /\ Range(all_nodes) = Neighbourhood(run.graph.edges, run.target, run.subset_params)
        /\ NoRepeats(all_nodes)
        /\ run.target \in Range(all_nodes)
        /\ \A i \in 1..Len(run.graph.edges) :
              ( /\ run.graph.edges[i].node0 \in Range(all_nodes)
                /\ run.graph.edges[i].node1 \in Range(all_nodes) )
              <=> (\E j \in 1..Len(edges) : edges[j] = run.graph.edges[i])
        /\ \A j \in 1..Len(edges) : \E i \in 1..Len(run.graph.edges) :
              edges[j] = run.graph.edges[i]
        /\ Len(edges) <= Len(run.graph.edges)
        /\ ( /\ project = PlainChain
             /\ run.subset_params.target_function = "c"
             /\ run.subset_params.upstream_depth = 1
             /\ run.subset_params.downstream_depth = 1 )
           => /\ {nodes[n].token : n \in Range(all_nodes)} = {"b", "c", "d"}
              /\ Len(all_nodes) = 3
              /\ TokenEdges = {<<"b", "c">>, <<"c", "d">>}
              /\ Len(edges) = 2

C11_ChainAroundC ==
    /\ pc = "filtered"
    /\ project = PlainChain
    /\ run.subset_params.target_function = "c"
    /\ run.subset_params.upstream_depth = 1
    /\ run.subset_params.downstream_depth = 1
    /\ Len(run.graph.edges) = 3
    /\ Len(edges) = 2
    /\ {nodes[n].token : n \in Range(all_nodes)} = {"b", "c", "d"}

(* the entries of the node list map_it returned that the target string names *)
(* by token, by Class.method or by file::Class.method                        *)
MatchingEntries ==
    {i \in 1..Len(run.graph.all_nodes) :
        LET n == run.graph.all_nodes[i]
            g == nodes[n].parent
            owned == IF groups[g].gtype = CLASS
                     THEN groups[g].token \o "." \o nodes[n].token
                     ELSE nodes[n].token
        IN run.subset_params.target_function
             \in {nodes[n].token, owned,
                  groups[top_group(groups, g)].token \o "::" \o owned}}

TargetSearched ==
    /\ run.subset_params.on
    /\ \/ pc = "filtered"
       \/ pc = "error" /\ run.raised_by = "_find_target_node"

(* C12: _find_target_node returns a node only when exactly one entry of the  *)
(* node list matches the target string, and then that entry; with no match   *)
(* or several it raises an AssertionError and returns nothing.               *)
C12_TargetFoundOnlyWhenUnique ==
    TargetSearched =>
        /\ run.target # 0 =>
              /\ Cardinality(MatchingEntries) = 1
              /\ \A i \in MatchingEntries : run.graph.all_nodes[i] = run.target
              /\ run.error = ""
        /\ Cardinality(MatchingEntries) # 1 =>
              /\ run.target = 0
              /\ pc = "error"
              /\ run.error = "AssertionError"
              /\ edges = run.graph.edges
              /\ all_nodes = run.graph.all_nodes

C12_SeveralTargetsRejected ==
    /\ pc = "error"
    /\ run.raised_by = "_find_target_node"
    /\ run.subset_params.target_function = "c"
    /\ Cardinality(MatchingEntries) = 2

GenerateReturned == run.entry = "main" /\ pc # "main"

(* C13: generate raises for a non-zero depth without a target, for a target  *)
(* with both depths zero and for a negative depth; it returns None for no    *)
(* target and no depth and a SubsetParams with the three values otherwise.   *)
C13_GenerateValidates ==
    GenerateReturned =>
        LET a == run.args
            raised == /\ pc = "error" /\ run.raised_by = "generate"
                      /\ run.error = "AssertionError" /\ ~run.subset_params.on
            bad == \/ a.target_function = "" /\ (a.upstream_depth # 0 \/ a.downstream_depth # 0)
                   \/ a.target_function # "" /\ a.upstream_depth = 0 /\ a.downstream_depth = 0
                   \/ a.upstream_depth < 0
                   \/ a.downstream_depth < 0
        IN /\ bad => raised
           /\ (a.target_function = "" /\ a.upstream_depth = 0 /\ a.downstream_depth = 0)
                => /\ run.raised_by # "generate"
                   /\ run.subset_params = NoSubset
           /\ (~bad /\ a.target_function # "")
                => /\ run.raised_by # "generate"
                   /\ run.subset_params =
                        [on |-> TRUE, target_function |-> a.target_function,
                         upstream_depth |-> a.upstream_depth,
                         downstream_depth |-> a.downstream_depth]

C13_NegativeDepthRejected ==
    /\ GenerateReturned
    /\ run.args.target_function # ""
    /\ run.args.upstream_depth > 0
    /\ run.args.downstream_depth < 0
    /\ run.raised_by = "generate"

(* The arguments no check of main or code2flow rejects, written from the     *)
(* documented rules rather than from the code's tests                        *)
ConfigurationAccepted ==
    /\ run.args.exclude_functions = "list"
    /\ Len(run.args.output_file) >= 2
    /\ run.args.output_file[Len(run.args.output_file)]
          \in {"png", "svg", "dot", "gv", "json"}
    /\ run.entry = "main" =>
          /\ run.args.target_function = "" =>
                run.args.upstream_depth = 0 /\ run.args.downstream_depth = 0
          /\ run.args.target_function # "" =>
                /\ run.args.upstream_depth >= 0
                /\ run.args.downstream_depth >= 0
                /\ run.args.upstream_depth + run.args.downstream_depth > 0

ConfigurationError ==
    pc = "error" /\ run.raised_by \in {"generate", "code2flow", "_find_target_node"}

(* C14, as stated: every configuration error, the target name that matches   *)
(* no node or several nodes included, is raised while no source file has     *)
(* been parsed.                                                              *)
C14_EveryConfigurationErrorBeforeParsing ==
    ConfigurationError => run.parsed = << >>

(* C14, amended: the errors of the depth and target combination, of the      *)
(* output extension and of a filter that is no list are raised while no      *)
(* source file has been parsed, and no source file is parsed under arguments *)
(* that one of these checks rejects; the target name is matched against the  *)
(* nodes map_it returned, so its error is raised after every source file was *)
(* parsed and the graph was built.                                           *)
C14_ConfigurationErrorsBeforeParsingButTarget ==
    /\ (run.entry # "map_it" /\ run.parsed # << >>) => ConfigurationAccepted
    /\ (pc = "error" /\ run.raised_by \in {"generate", "code2flow"}) =>
          run.parsed = << >> /\ ~ConfigurationAccepted
    /\ (pc = "error" /\ run.raised_by = "_find_target_node") =>
          /\ run.parsed # << >>
          /\ run.graph # NoGraph
          /\ ConfigurationAccepted

C14_ExtensionRejectedUnparsed ==
    /\ pc = "error"
    /\ run.raised_by = "code2flow"
    /\ run.error = "ValueError"
    /\ run.args.output_file = <<"out", "txt">>
    /\ run.parsed = << >>

(* the sources of the run that parse on their own, and the file groups that  *)
(* step 2 of map_it has built                                                *)
ParsableSources ==
    {project.sources[i] : i \in 1..Len(project.sources)}
        \ {f \in 1..Len(project.files) : Malformed(project.files[f])}

FileGroupTokens == {groups[file_groups[i]].token : i \in 1..Len(file_groups)}

ParseFailed == \E i \in 1..Len(run.parsed) : Malformed(project.files[run.parsed[i]])

(* C15: in lenient mode every source that parses on its own has its file     *)
(* group among the file groups once parsing is over, whatever it imports and *)
(* whatever imports it; in strict mode a parse failure ends map_it with the  *)
(* exception and no file group.                                              *)
C15_OnlyTheMalformedFileIsSkipped ==
    /\ (cfg.skip_parse_errors /\ pc = "consolidate") =>
          \A f \in ParsableSources : project.files[f].token \in FileGroupTokens
    /\ (~cfg.skip_parse_errors /\ pc # "parse" /\ ParseFailed) =>
          pc = "error" /\ file_groups = << >>

(* what the code keeps of C15: without heuristics only the malformed sources *)
(* are left out, and strict mode raises                                      *)
LenientWithoutHeuristicsKeepsSources ==
    /\ (cfg.skip_parse_errors /\ ~cfg.heuristics /\ pc = "consolidate") =>
          FileGroupTokens = {project.files[f].token : f \in ParsableSources}
    /\ (~cfg.skip_parse_errors /\ pc # "parse" /\ ParseFailed) =>
          pc = "error" /\ file_groups = << >>

(* the functions defined at the top level of a source file under a name *)
FileScopeFunctions(token) ==
    {n \in 1..Len(nodes) :
        /\ nodes[n].token = token
        /\ nodes[n].parent # 0
        /\ groups[nodes[n].parent].gtype = FILE
        /\ groups[nodes[n].parent].root # n
        /\ ~nodes[n].is_library
        /\ ~nodes[n].missing}

ClassesNamed(token) ==
    {g \in 1..Len(groups) : groups[g].gtype = CLASS /\ groups[g].token = token}

(* the names a node binds itself: parameters, assignments and imports *)
BoundAt(n) ==
    {nodes[n].variables[i].token : i \in 1..Len(nodes[n].variables)}

IsBareCallOfOneFunction(lk) ==
    /\ lk.call.owner = NoOwner
    /\ lk.call.indirect = << >>
    /\ lk.call.factory_call = ""
    /\ Cardinality(FileScopeFunctions(lk.call.token)) = 1
    /\ ClassesNamed(lk.call.token) = {}
    /\ <<lk.call.token>> \notin BoundAt(lk.node_a)

(* C16: a bare call whose token names exactly one file-scope function, no    *)
(* class and no variable of the calling node is linked to that function, not *)
(* recorded as ambiguous, and has one link and so one edge; the file with    *)
(* def a(): b() and def b(): pass gives the single edge a -> b and, trimmed, *)
(* the two nodes a and b without the root node of the file.                  *)
C16_BareCallOfOneFunction ==
    /\ \A i \in 1..Len(links) :
          IsBareCallOfOneFunction(links[i]) =>
             /\ links[i].target \in FileScopeFunctions(links[i].call.token)
             /\ ~links[i].bad
             /\ links[i].synth = "none"
             /\ \A j \in 1..Len(links) :
                   (links[j].node_a = links[i].node_a /\ links[j].idx = links[i].idx)
                      => j = i
             /\ pc = "links" =>
                   /\ links[i].edge \in 1..Len(edges)
                   /\ edges[links[i].edge].node0 = links[i].node_a
                   /\ edges[links[i].edge].node1 = links[i].target
    /\ (project = TwoFunctions /\ pc = "done") =>
          /\ Len(edges) = 1
          /\ TokenEdges = {<<"a", "b">>}
          /\ ~cfg.no_trimming =>
                /\ Len(all_nodes) = 2
                /\ {nodes[n].token : n \in Range(all_nodes)} = {"a", "b"}
                /\ \A n \in Range(all_nodes) : n \in FileScopeFunctions(nodes[n].token)

(* the dict literals a statement list assigns to a name, and the function    *)
(* name that container[key] stands for in the function caller: the dict of   *)
(* the body that has the key, else the dict of the module                    *)
DictsOf(stmts, container, key) ==
    {stmts[i].map[key] : i \in {j \in 1..Len(stmts) :
                                   /\ stmts[j].s = "dict"
                                   /\ stmts[j].target = container
                                   /\ key \in DOMAIN stmts[j].map}}

SubscriptCalls(stmts) ==
    {i \in 1..Len(stmts) : stmts[i].s = "expr" /\ stmts[i].func.k = "sub"}

NamedByDict(file, inCaller, container, key) ==
    IF inCaller /\ DictsOf(file.funcs[3].body, container, key) # {}
    THEN DictsOf(file.funcs[3].body, container, key)
    ELSE DictsOf(file.stmts, container, key)

DictLabel(lk) == "as " \o lk.call.indirect[2] \o "['" \o lk.call.indirect[3] \o "']()"


(* C17: the call container[key]() of a name bound to a dict literal becomes  *)
(* a Call whose token is the function name stored under the key and whose    *)
(* indirect tag is (dict, container, key); when a function of that name      *)
(* exists the call is linked to it, and the edge from the calling node       *)
(* carries the label as container['key']() (after the alias label when alias *)
(* labels are on); handlers = {'x': f} and handlers['x']() in caller give    *)
(* the edge caller -> f labelled as handlers['x']().                         *)
C17_DictDispatch ==
    /\ \A i \in 1..Len(links) :
          LET lk == links[i]
              file == project.files[1]
              inCaller == nodes[lk.node_a].token = "caller"
              body == IF inCaller THEN file.funcs[3].body ELSE file.stmts
          IN /\ lk.call.indirect # << >> <=>
                   \E j \in SubscriptCalls(body) : body[j].line = lk.call.line
             /\ lk.call.indirect # << >> =>
                   /\ Len(lk.call.indirect) = 3
                   /\ lk.call.indirect[1] = "dict"
                   /\ \E j \in SubscriptCalls(body) :
                         /\ body[j].line = lk.call.line
                         /\ lk.call.indirect[2] = body[j].func.id
                         /\ lk.call.indirect[3] = body[j].func.key
                   /\ lk.call.owner = NoOwner
                   /\ NamedByDict(file, inCaller, lk.call.indirect[2],
                                  lk.call.indirect[3]) = {lk.call.token}
                   /\ FileScopeFunctions(lk.call.token) # {} =>
                         /\ lk.target \in FileScopeFunctions(lk.call.token)
                         /\ ~lk.bad
                   /\ lk.label \in {DictLabel(lk)}
                         \cup (IF cfg.alias_labels
                               THEN {"as " \o lk.call.token \o "() " \o DictLabel(lk)}
                               ELSE {})
                   /\ \E e \in 1..Len(edges) :
                         /\ edges[e].node0 = lk.node_a
                         /\ edges[e].node1 = lk.target
                         /\ edges[e].label = lk.label
    /\ (project = HandlersOfF /\ pc = "done") =>
          /\ Len(edges) = 1
          /\ nodes[edges[1].node0].token = "caller"
          /\ edges[1].node1 \in FileScopeFunctions("f")
          /\ ~cfg.alias_labels => edges[1].label = "as handlers['x']()"

C17_HandlersCallReachesF ==
    /\ project = HandlersOfF
    /\ pc = "done"
    /\ ~cfg.alias_labels
    /\ \E i \in 1..Len(links) :
          /\ links[i].call.indirect = <<"dict", "handlers", "x">>
          /\ links[i].call.token = "f"
          /\ nodes[links[i].target].token = "f"
          /\ links[i].label = "as handlers['x']()"
    /\ Len(edges) = 1

(* the groups of the result: the file groups and everything below them *)
ResultGroups == Range(file_groups) \cup Range(AllSubgroups(groups, file_groups))

NoLibraryInResult ==
    /\ \A n \in Range(all_nodes) : ~nodes[n].is_library
    /\ \A g \in ResultGroups : \A i \in 1..Len(groups[g].nodes) :
          ~nodes[groups[g].nodes[i]].is_library
    /\ \A i \in 1..Len(edges) :
          ~nodes[edges[i].node0].is_library /\ ~nodes[edges[i].node1].is_library
    /\ \A g \in ResultGroups :
          groups[g].display \notin {"Library", "Built-in Functions"}

(* C18: when show_libraries is off, what map_it returns holds no library     *)
(* node, no edge that starts or ends in a library node and no library or     *)
(* built-ins pseudo-namespace, whatever the other toggles are, no_trimming   *)
(* included.                                                                 *)
C18_NoLibraryWhenHidden ==
    (pc = "done" /\ ~cfg.show_libraries) => NoLibraryInResult

(* what the code keeps of C18: the result of a trimmed run *)
TrimmedResultHidesLibraries ==
    (pc = "done" /\ ~cfg.show_libraries /\ ~cfg.no_trimming) => NoLibraryInResult

WellFormedVariable(var) ==
    /\ var.token # << >>
    /\ \A i \in 1..Len(var.token) : var.token[i] # ""
    /\ var.kind # "none"

(* C19: the constructor raises ValueError exactly for an empty token and for *)
(* points_to None; every other points_to, the empty mapping, zero and the    *)
(* empty string included, is accepted and stored as given; every Variable a  *)
(* node holds has a non-empty token and a points_to that is not None.        *)
C19_VariableRequiresTokenAndTarget ==
    /\ (run.entry = "Variable" /\ pc # "Variable") =>
          /\ pc = "error" <=> (run.args.token = << >> \/ run.args.points_to.kind = "none")
          /\ pc = "error" => run.error = "ValueError" /\ run.made = << >>
          /\ pc # "error" =>
                /\ pc = "constructed"
                /\ Len(run.made) = 1
                /\ run.made[1].token = run.args.token
                /\ run.made[1].kind = run.args.points_to.kind
                /\ run.made[1].v = run.args.points_to.v
                /\ run.made[1].line = run.args.line_number
    /\ \A n \in 1..Len(nodes) : \A i \in 1..Len(nodes[n].variables) :
          WellFormedVariable(nodes[n].variables[i])
    /\ \A i \in 1..Len(run.made) : WellFormedVariable(run.made[i])

C19_EmptyMappingAccepted ==
    /\ run.entry = "Variable"
    /\ pc = "constructed"
    /\ run.args.points_to.kind = "dict"
    /\ DOMAIN run.args.points_to.v = {}
    /\ run.made # << >>
    /\ run.made[1].kind = "dict"
    /\ DOMAIN run.made[1].v = {}

(* what the file of a nested-class project declares under the name Inner *)
HasMethod(class, name) == \E i \in 1..Len(class.methods) : class.methods[i].name = name

OwnInner == HasMethod(project.files[1].classes[3], "Inner")

NestedInner == project.files[1].classes[3].nested # << >>

InheritedInner == {i \in 1..2 : HasMethod(project.files[1].classes[i], "Inner")}

CallsSelfInner(lk) ==
    /\ project \in NestedProjects
    /\ cfg.heuristics
    /\ lk.call.owner = <<"self">>
    /\ lk.call.token = "Inner"
    /\ groups[nodes[lk.node_a].parent].token = "Derived"

LinkedTo(lk, class, token) ==
    /\ ~lk.bad
    /\ lk.target # 0
    /\ nodes[lk.target].token = token
    /\ groups[nodes[lk.target].parent].token = class
    /\ ~nodes[lk.target].missing

LinkedToInherited(lk) ==
    /\ Cardinality(InheritedInner) = 1 =>
          \E i \in InheritedInner : LinkedTo(lk, project.files[1].classes[i].name, "Inner")
    /\ Cardinality(InheritedInner) > 1 => lk.bad /\ lk.node_b = 0

-----------------------------------------------------------------------------
(* The variable a call names: the call's owner for an attribute call, the    *)
(* call's token for a bare call                                              *)
StructuralMatch(call, var) ==
    IF is_attr(call) THEN call.owner = var.token ELSE <<call.token>> = var.token

(* the variables visible at the call of a link that the call names, nearest  *)
(* first                                                                     *)
NamedVariables(lk) ==
    SelectSeq(get_variables(groups, nodes, lk.node_a, lk.call.line),
              LAMBDA v : StructuralMatch(lk.call, v))

BoundToUnknownModule(var) == var.kind = "str" /\ var.v = UNKNOWN_MODULE

(* strategies 1 to 5 fell through, so the call came to variable matching *)
CameToVariableMatching(lk) == \A k \in 1..5 : ~lk.verdicts[k].hit

ReturnedNoMatch(lk) ==
    /\ lk.node_b = 0
    /\ ~lk.bad
    /\ lk.cands = << >>
    /\ lk.synth = "none"

(* C21: a call that comes to general variable matching and whose first      *)
(* structurally matching variable is bound to the unknown-module sentinel   *)
(* gets no match from _find_link_for_call: no node, no ambiguity, nothing   *)
(* synthesized, and neither a later variable, the factory resolution nor    *)
(* direct name matching decided it.                                         *)
C21_UnknownModuleTerminates ==
    \A i \in 1..Len(links) :
        LET lk == links[i] IN
        (/\ CameToVariableMatching(lk)
         /\ NamedVariables(lk) # << >>
         /\ BoundToUnknownModule(NamedVariables(lk)[1]))
        => /\ ReturnedNoMatch(lk)
           /\ lk.strat = "variable"
           /\ ~lk.call.via_factory

(* g is bound to the unknown module in f and to the function g of b.py at   *)
(* module level, a function g is in the same file, and the call g()() in f  *)
(* names g as its factory: the call got no match.                           *)
C21_UnknownModuleHidesFunction ==
    \E i \in 1..Len(links) :
        LET lk == links[i] IN
        /\ lk.call.token = "g"
        /\ lk.call.factory_call = "g"
        /\ CameToVariableMatching(lk)
        /\ Len(NamedVariables(lk)) > 1
        /\ BoundToUnknownModule(NamedVariables(lk)[1])
        /\ NamedVariables(lk)[2].kind = "node"
        /\ \E n \in Range(all_nodes) : nodes[n].token = "g" /\ InFile(n, "a")
        /\ ReturnedNoMatch(lk)

-----------------------------------------------------------------------------
(* a bare call Foo() where no file-scope function Foo exists, a class Foo    *)
(* is among the parsed groups and the caller binds no variable Foo           *)
IsBareCallOfClass(lk) ==
    /\ lk.call.owner = NoOwner
    /\ lk.call.indirect = << >>
    /\ lk.call.factory_call = ""
    /\ FileScopeFunctions(lk.call.token) = {}
    /\ ClassesNamed(lk.call.token) # {}
    /\ <<lk.call.token>> \notin BoundAt(lk.node_a)

(* the constructors a class declares in its source *)
DeclaredConstructors(g) ==
    {n \in Range(groups[g].nodes) : nodes[n].is_constructor /\ ~nodes[n].implicit}

ResolvedToConstructor(lk) ==
    /\ lk.node_b # 0
    /\ ~lk.bad
    /\ nodes[lk.node_b].is_constructor
    /\ nodes[lk.node_b].parent \in ClassesNamed(lk.call.token)
    /\ IF DeclaredConstructors(nodes[lk.node_b].parent) # {}
       THEN lk.node_b \in DeclaredConstructors(nodes[lk.node_b].parent)
       ELSE nodes[lk.node_b].implicit

(* C22: a bare call Foo() with no file-scope function Foo resolves to the   *)
(* constructor of the class Foo whenever a class of that name is among the  *)
(* parsed groups: to the constructor the class declares, else to a          *)
(* synthesized implicit constructor, also when the class has no methods.    *)
C22_BareCallOfClassReachesConstructor ==
    \A i \in 1..Len(links) :
        IsBareCallOfClass(links[i]) => ResolvedToConstructor(links[i])

(* the same for the classes that declare at least one method *)
ClassWithMethodsReachesConstructor ==
    \A i \in 1..Len(links) :
        (/\ IsBareCallOfClass(links[i])
         /\ \A g \in ClassesNamed(links[i].call.token) :
               \E n \in Range(groups[g].nodes) : ~nodes[n].implicit)
        => ResolvedToConstructor(links[i])

(* a class without methods whose bare call got no constructor *)
EmptyClassUnresolved ==
    \E i \in 1..Len(links) :
        /\ IsBareCallOfClass(links[i])
        /\ \A g \in ClassesNamed(links[i].call.token) : groups[g].nodes = << >>
        /\ ReturnedNoMatch(links[i])

-----------------------------------------------------------------------------
(* the methods of classes named token, as parsed *)
ClassMethods(token) ==
    {n \in 1..Len(nodes) :
        /\ nodes[n].token = token
        /\ nodes[n].parent # 0
        /\ groups[nodes[n].parent].gtype = CLASS
        /\ ~nodes[n].implicit}

FirstOf(S) == CHOOSE n \in S : \A m \in S : n <= m

(* the factory of a call: a file-scope function of the name when one        *)
(* exists, a class method otherwise, 0 when there is neither                *)
FactoryOf(lk) ==
    IF FileScopeFunctions(lk.call.factory_call) # {}
    THEN FirstOf(FileScopeFunctions(lk.call.factory_call))
    ELSE IF ClassMethods(lk.call.factory_call) # {}
    THEN FirstOf(ClassMethods(lk.call.factory_call))
    ELSE 0

(* the parsed functions and methods named token *)
KnownNodes(token) ==
    {n \in 1..Len(nodes) :
        nodes[n].token = token /\ ~nodes[n].missing /\ ~nodes[n].is_library}

(* strategies 1 to 6 fell through, so the call came to the factory step *)
CameToFactoryStep(lk) ==
    /\ lk.call.factory_call # ""
    /\ \A k \in 1..6 : ~lk.verdicts[k].hit

FactoryReturnsOneKnownName(lk) ==
    /\ FactoryOf(lk) # 0
    /\ Len(nodes[FactoryOf(lk)].return_tokens) = 1
    /\ KnownNodes(nodes[FactoryOf(lk)].return_tokens[1]) # {}

ViaFactoryLabels(lk) ==
    {"via factory", "as " \o lk.call.token \o "() (via factory)"}

(* C23: for a call tagged with a factory_call the factory is a file-scope   *)
(* function of that name when one exists, a class method otherwise; when    *)
(* the factory returns a single bare name that a known node has, the call   *)
(* resolves to that node, is flagged via_factory, and the label of its edge *)
(* contains 'via factory'.                                                  *)
C23_FactoryReturnResolves ==
    \A i \in 1..Len(links) :
        LET lk == links[i] IN
        (CameToFactoryStep(lk) /\ FactoryReturnsOneKnownName(lk))
        => /\ lk.node_b \in KnownNodes(nodes[FactoryOf(lk)].return_tokens[1])
           /\ lk.call.via_factory
           /\ lk.edge # 0
           /\ lk.label \in ViaFactoryLabels(lk)

(* the same for the calls resolved while no NotFound node has the name of   *)
(* the factory                                                              *)
FactoryReturnResolvesWithoutPlaceholder ==
    \A i \in 1..Len(links) :
        LET lk == links[i] IN
        (/\ CameToFactoryStep(lk)
         /\ FactoryReturnsOneKnownName(lk)
         /\ \A k \in 1..(i - 1) :
               ~(IsMissing(links[k]) /\ links[k].call.token = lk.call.factory_call))
        => /\ lk.node_b \in KnownNodes(nodes[FactoryOf(lk)].return_tokens[1])
           /\ lk.call.via_factory
           /\ lk.edge # 0
           /\ lk.label \in ViaFactoryLabels(lk)

-----------------------------------------------------------------------------
(* the call statements of the functions of the project whose callee is      *)
(* written as a bare name                                                    *)
CallStatements ==
    {st \in UNION {UNION {Range(project.files[x].funcs[y].body) :
                              y \in 1..Len(project.files[x].funcs)} :
                     x \in 1..Len(project.files)} :
        st.s = "expr" /\ st.func.k = "name"}

(* the i-th positional argument of the statement is a bare function name *)
PassesFunction(st, i) ==
    /\ i \in 1..Len(st.args)
    /\ st.args[i].k = "name"
    /\ FileScopeFunctions(st.args[i].id) # {}

(* the variable of the i-th parameter of node t points at a node named g *)
ParameterReboundTo(t, i, g) ==
    /\ i \in 1..Len(nodes[t].variables)
    /\ nodes[t].variables[i].token = <<nodes[t].param_tokens[i]>>
    /\ nodes[t].variables[i].kind = "node"
    /\ nodes[nodes[t].variables[i].v].token = g

ParameterRebound(t, i) ==
    /\ i \in 1..Len(nodes[t].variables)
    /\ nodes[t].variables[i].kind = "node"

Propagated == pc \notin {"parse", "error", "consolidate", "resolve_variables", "propagate"}

PropagatesByIndex(st) ==
    LET callees == FileScopeFunctions(st.func.id) IN
    IF Cardinality(callees) = 1
    THEN \A t \in callees : \A i \in 1..Len(nodes[t].param_tokens) :
            IF PassesFunction(st, i)
            THEN ParameterReboundTo(t, i, st.args[i].id)
            ELSE ~ParameterRebound(t, i)
    ELSE \A t \in callees : \A i \in 1..Len(nodes[t].param_tokens) :
            ~ParameterRebound(t, i)

(* C24: with the heuristics on, when the i-th positional argument of a call *)
(* is a bare function name g and the callee is the one file-scope function  *)
(* of its name, the variable of the callee's i-th parameter, and of no      *)
(* other parameter, points at the node g; when the callee is not unique at  *)
(* file scope no parameter is rebound.                                      *)
C24_ArgumentsPropagateByIndex ==
    (Propagated /\ cfg.heuristics /\ project \in ArgumentProjects) =>
        \A st \in CallStatements : st.args # << >> => PropagatesByIndex(st)

(* the same for the calls whose positional arguments are all names *)
NamedArgumentsPropagateByIndex ==
    (Propagated /\ cfg.heuristics /\ project \in ArgumentProjects) =>
        \A st \in CallStatements :
            (st.args # << >> /\ \A i \in 1..Len(st.args) : st.args[i].k # "const")
            => PropagatesByIndex(st)

(* trace(1, g): the first parameter of trace points at g *)
ArgumentShifted ==
    /\ Propagated /\ cfg.heuristics /\ project \in ArgumentProjects
    /\ \E st \in CallStatements : \E t \in FileScopeFunctions(st.func.id) :
          /\ Len(st.args) = 2 /\ st.args[1].k = "const" /\ st.args[2].k = "name"
          /\ ParameterReboundTo(t, 1, st.args[2].id)
          /\ ~ParameterRebound(t, 2)


-----------------------------------------------------------------------------
(* Calls of get_call_from_func_element on one attribute callee under one    *)
(* scope stack, as make_calls and process_assign call it, beside runs of    *)
(* map_it                                                                   *)

(* a.b(), self.b(), a.x.b() and g().b() *)
CalleeExprs == {AttrE("a", "b"), AttrE("self", "b"), Attr2E("a", "b"), AttrCallE("g", "b")}

(* a tuple, as its values are of different kinds: a is untracked, bound to  *)
(* a module name, to a dotted module path, to a dict literal                *)
CalleeScopes ==
    << EmptyMap,
       OneKey("a", StrV(<<"os">>)),
       OneKey("a", StrV(<<"os", "path">>)),
       OneKey("a", DictV(OneKey("k", "f"))) >>

ExtractCall ==
    /\ pc = "get_call_from_func_element"
    /\ run' = [run EXCEPT !.made = get_call_from_func_element(run.args.func,
                                                              run.args.scope_stack, 1, << >>)]
    /\ pc' = "extracted"
    /\ UNCHANGED <<project, cfg, groups, nodes, file_groups, all_nodes, lib_sigs,
                   lib_groups, missing_keys, missing_group, bad_calls, edges, cursor,
                   links, probe>>

InitCall ==
    /\ \/ /\ pc = "get_call_from_func_element"
          /\ \E f \in CalleeExprs, i \in 1..Len(CalleeScopes), j \in 0..Len(CalleeScopes) :
                run = [NoRun EXCEPT !.entry = "get_call_from_func_element",
                                    !.args = [func |-> f,
                                              scope_stack |->
                                                 IF j = 0 THEN <<CalleeScopes[i]>>
                                                 ELSE <<CalleeScopes[i], CalleeScopes[j]>>]]
          /\ project = HandlersOfF
          /\ cfg \in {c \in IdiomConfigs : c.heuristics /\ ~c.no_trimming /\ ~c.alias_labels}
       \/ /\ pc = "parse"
          /\ run = NoRun
          /\ project \in IdiomProjects
          /\ cfg \in IdiomConfigs
    /\ groups = << >>
    /\ nodes = << >>
    /\ file_groups = << >>
    /\ all_nodes = << >>
    /\ lib_sigs = EmptyMap
    /\ lib_groups = << >>
    /\ missing_keys = EmptyMap
    /\ missing_group = 0
    /\ bad_calls = << >>
    /\ edges = << >>
    /\ links = << >>
    /\ cursor = [snap |-> << >>, i |-> 1]
    /\ probe = NoProbe

NextCall == ExtractCall \/ Next

SpecCall == InitCall /\ [][NextCall]_vars

(* the innermost binding of the base name, when the base is a simple name   *)
(* some scope tracks                                                        *)
Tracked(func, stack) == func.k = "attr" /\ ScopeIdx(stack, func.id) # {}

InnermostBinding(func, stack) == stack[MaxOf(ScopeIdx(stack, func.id))][func.id]

BoundToString(func, stack) == Tracked(func, stack) /\ InnermostBinding(func, stack).t = "str"

(* the text before the last dot of the callee: a for a.b, a.x for a.x.b *)
DottedPrefix(func) ==
    CASE func.k = "attr" -> <<func.id>>
      [] func.k = "attr2" -> <<func.id, "x">>
      [] OTHER -> << >>

Extracted == pc = "extracted" /\ Len(run.made) = 1

(* C25: for an attribute call a.b(), a base that is a simple name bound to  *)
(* a string gives that string as the owner token; every other base that is  *)
(* a name or a chain of attributes on a name, an untracked simple name      *)
(* included, gives the dotted prefix of the expression; and is_library is   *)
(* true exactly when the owner token is not the unknown-variable sentinel   *)
C25_OwnerIsBindingOrDottedPrefix ==
    Extracted =>
        LET func == run.args.func
            stack == run.args.scope_stack
            call == run.made[1]
        IN /\ BoundToString(func, stack) => call.owner = InnermostBinding(func, stack).v
           /\ (~BoundToString(func, stack) /\ func.k \in {"attr", "attr2"})
                 => call.owner = DottedPrefix(func)
           /\ call.is_library <=> call.owner \notin {UNKNOWN_VAR, NoOwner}

(* what holds of the claim: the string binding, the non-string binding and  *)
(* is_library                                                               *)
OwnerOfTrackedName ==
    Extracted =>
        LET func == run.args.func
            stack == run.args.scope_stack
            call == run.made[1]
        IN /\ BoundToString(func, stack) => call.owner = InnermostBinding(func, stack).v
           /\ (Tracked(func, stack) /\ ~BoundToString(func, stack))
                 => call.owner = DottedPrefix(func)
           /\ call.is_library <=> call.owner \notin {UNKNOWN_VAR, NoOwner}

(* a.b() with a in no scope: the owner is the sentinel and the call is not  *)
(* a library call                                                           *)
UntrackedNameLeavesSentinel ==
    Extracted /\ run.args.func = AttrE("a", "b") /\ ~Tracked(run.args.func, run.args.scope_stack)
      => run.made[1].owner = UNKNOWN_VAR /\ ~run.made[1].is_library

(* a.x.b(): the owner is the root name a *)
ChainKeepsRootOnly ==
    Extracted /\ run.args.func.k = "attr2"
      => run.made[1].owner = <<run.args.func.id>> /\ run.made[1].is_library

UntrackedNameExtracted ==
    Extracted /\ run.args.func = AttrE("a", "b") /\ ~Tracked(run.args.func, run.args.scope_stack)

ChainExtracted == Extracted /\ run.args.func.k = "attr2"


-----------------------------------------------------------------------------
(* Runs of map_it on a file whose functions and methods, at class nesting   *)
(* depths 0 to 3, use a name the module binds at its top level              *)
(*                                                                           *)
(*   a.py  [import os | import zz as os | from os import path as os]        *)
(*         def f(): <body>                                                   *)
(*         class A:                                                          *)
(*             def n(self): <body>                                           *)
(*             class B:                                                      *)
(*                 def m(self): <body>                                       *)
(*                 class C:                                                  *)
(*                     def d(self): <body>                                   *)
(* <body> is os.getcwd(), or import yy as os ; os.getcwd(), or              *)
(* os.getcwd() ; os = {'k': 'f'}                                             *)

ScopeTops ==
    { << >>,
      <<ImportS(1, <<"os">>, "")>>,
      <<ImportS(1, <<"zz">>, "os")>>,
      <<ImportFromS(1, <<"os">>, <<"path">>, "os")>> }

ScopeBodies ==
    { <<ExprS(1, AttrE("os", "getcwd"), << >>)>>,
      <<ImportS(1, <<"yy">>, "os"), ExprS(2, AttrE("os", "getcwd"), << >>)>>,
      <<ExprS(1, AttrE("os", "getcwd"), << >>), DictS(2, "os", OneKey("k", "f"))>> }

ScopeFile(top, body) ==
    FileDef("a", top,
            <<FuncDef("f", 10, << >>, Numbered(body, 10))>>,
            <<ClassDef("A", 20, << >>,
                 <<FuncDef("n", 21, <<"self">>, Numbered(body, 21))>>,
                 <<ClassDef("B", 30, << >>,
                      <<FuncDef("m", 31, <<"self">>, Numbered(body, 31))>>,
                      <<ClassDef("C", 40, << >>,
                           <<FuncDef("d", 41, <<"self">>, Numbered(body, 41))>>,
                           << >>)>>)>>)>>)

ScopeProjects ==
    {[files |-> <<ScopeFile(top, body)>>, sources |-> <<1>>] :
        top \in ScopeTops, body \in ScopeBodies}

InitScope ==
    /\ project \in ScopeProjects
    /\ cfg \in ResolveConfigs
    /\ pc = "parse"
    /\ groups = << >>
    /\ nodes = << >>
    /\ file_groups = << >>
    /\ all_nodes = << >>
    /\ lib_sigs = EmptyMap
    /\ lib_groups = << >>
    /\ missing_keys = EmptyMap
    /\ missing_group = 0
    /\ bad_calls = << >>
    /\ edges = << >>
    /\ links = << >>
    /\ cursor = [snap |-> << >>, i |-> 1]
    /\ probe = NoProbe
    /\ run = NoRun

SpecScope == InitScope /\ [][Next]_vars

(* the function definitions of a class and of the classes nested in it,     *)
(* each with the tokens of the groups around it                             *)
RECURSIVE ClassBodies(_, _)
ClassBodies(cls, path) ==
    {[path |-> Append(path, cls.name), tree |-> cls.methods[i]] : i \in 1..Len(cls.methods)}
    \cup UNION {ClassBodies(cls.nested[i], Append(path, cls.name)) : i \in 1..Len(cls.nested)}

FileBodies(file) ==
    {[path |-> <<file.token>>, tree |-> file.funcs[i]] : i \in 1..Len(file.funcs)}
    \cup UNION {ClassBodies(file.classes[i], <<file.token>>) : i \in 1..Len(file.classes)}

ParsedBodies == UNION {FileBodies(project.files[project.sources[i]]) :
                          i \in 1..Len(project.sources)}

RECURSIVE GroupPath(_, _)
GroupPath(G, gid) ==
    IF G[gid].parent = 0 THEN <<G[gid].token>>
    ELSE Append(GroupPath(G, G[gid].parent), G[gid].token)

IsNodeOf(n, r) ==
    /\ r.path = GroupPath(groups, nodes[n].parent)
    /\ r.tree.name = nodes[n].token
    /\ r.tree.line = nodes[n].line

(* the module's top-level scope: the bindings of its module-level           *)
(* statements, as the root node collects them                               *)
ModuleScope(file) ==
    LET import_tree == SelectSeq(file.stmts, LAMBDA st : st.s = "import")
        body_trees == SelectSeq(file.stmts, LAMBDA st : st.s # "import")
    IN make_local_variables(body_trees \o import_tree, 0, FILE, <<EmptyMap>>).stack[1]

(* the calls of a body, extracted under a stack seeded with scope *)
CallsUnder(tree, parent, scope) ==
    make_calls(tree.body,
               make_local_variables(tree.body, parent, groups[parent].gtype,
                                    <<scope, EmptyMap>>).stack)

JustParsed == pc = "consolidate"

ClassDepth(n) == Len(GroupPath(groups, nodes[n].parent)) - 1

(* C26: the calls of every function and method, at any class nesting depth, *)
(* are extracted under a scope stack seeded with the top-level scope of the *)
(* enclosing module, so a module-level import binding is visible in the     *)
(* body; and the module-level scope is after the analysis of the bodies     *)
(* what the module-level statements alone make it                           *)
C26_BodiesSeededWithModuleScope ==
    JustParsed =>
        /\ \A n \in 1..Len(nodes) : \A r \in ParsedBodies :
              IsNodeOf(n, r)
                => nodes[n].calls =
                     CallsUnder(r.tree, nodes[n].parent,
                                ModuleScope(project.files[project.sources[1]]))
        /\ \A i \in 1..Len(file_groups) :
              groups[file_groups[i]].module_scope =
                 ModuleScope(project.files[project.sources[i]])

(* the same for the functions of the file and the methods of its top-level  *)
(* classes                                                                  *)
ShallowBodiesSeededWithModuleScope ==
    JustParsed =>
        /\ \A n \in 1..Len(nodes) : \A r \in ParsedBodies :
              IsNodeOf(n, r) /\ ClassDepth(n) <= 1
                => nodes[n].calls =
                     CallsUnder(r.tree, nodes[n].parent,
                                ModuleScope(project.files[project.sources[1]]))
        /\ \A i \in 1..Len(file_groups) :
              groups[file_groups[i]].module_scope =
                 ModuleScope(project.files[project.sources[i]])

(* the methods of a class nested in a class are read under an empty seed *)
NestedBodiesSeededWithNothing ==
    JustParsed =>
        \A n \in 1..Len(nodes) : \A r \in ParsedBodies :
           IsNodeOf(n, r) /\ ClassDepth(n) >= 2
             => nodes[n].calls = CallsUnder(r.tree, nodes[n].parent, EmptyMap)

(* a method of a nested class calls os.getcwd() under `import os` and the   *)
(* call has no owner                                                        *)
ImportHiddenInNestedClass ==
    /\ JustParsed
    /\ "os" \in DOMAIN ModuleScope(project.files[1])
    /\ \E n \in 1..Len(nodes) :
          /\ nodes[n].token = "m"
          /\ \E c \in 1..Len(nodes[n].calls) : nodes[n].calls[c].owner = UNKNOWN_VAR


-----------------------------------------------------------------------------
(* The node list of map_it after the library nodes are made *)

AfterLibrarySynthesis == pc \in {"lib_instance", "lib_attach", "links", "strip", "trim", "done"}

ListedOnce(s) == \A i, j \in 1..Len(s) : s[i] = s[j] => i = j

Different(s) == {s[i] : i \in 1..Len(s)}

ReportedAmbiguous(lk) == lk.bad /\ lk.strat = "direct"

(* C27: from library synthesis on, all_nodes holds every node at most once, *)
(* so that a call direct name matching reports as ambiguous has at least    *)
(* two different nodes that match it                                        *)
C27_NodeListedOnce ==
    /\ AfterLibrarySynthesis => ListedOnce(all_nodes)
    /\ \A i \in 1..Len(links) :
          ReportedAmbiguous(links[i]) => Cardinality(Different(links[i].cands)) >= 2

(* the nodes listed twice are the synthesized library nodes, and they are   *)
(* listed once until the library groups are attached                        *)
OnlyLibraryNodesListedTwice ==
    /\ \A i, j \in 1..Len(all_nodes) :
          (all_nodes[i] = all_nodes[j] /\ i # j)
             => /\ nodes[all_nodes[i]].is_library
                /\ pc \in {"links", "strip", "trim", "done"}
    /\ \A i \in 1..Len(links) :
          (ReportedAmbiguous(links[i]) /\ Cardinality(Different(links[i].cands)) < 2)
             => \A c \in Different(links[i].cands) : nodes[c].is_library

(* x.get() matches the one library node requests.get and is reported        *)
(* ambiguous between that node and itself                                   *)
LibraryNodeCountedTwice ==
    \E i \in 1..Len(links) :
       /\ ReportedAmbiguous(links[i])
       /\ Len(links[i].cands) = 2
       /\ Cardinality(Different(links[i].cands)) = 1


-----------------------------------------------------------------------------
(* The edges and the node list map_it returns *)

EdgeEndpoints == UNION {{edges[i].node0, edges[i].node1} : i \in 1..Len(edges)}

Returned == pc = "done"

(* the nodes _find_link_for_call made while it resolved a call *)
SynthesizedTargets == {links[i].target : i \in {j \in 1..Len(links) : links[j].synth # "none"}}

(* C28: every edge map_it returns has both endpoints in the node list it    *)
(* returns, with and without trimming; a node synthesized while a call was  *)
(* resolved is in the node list                                             *)
C28_EdgesWithinReturnedNodes ==
    Returned => /\ EdgeEndpoints \subseteq Range(all_nodes)
                /\ (SynthesizedTargets \cap EdgeEndpoints) \subseteq Range(all_nodes)

(* with trimming the endpoints are in the list; without it the endpoints    *)
(* that are not are the synthesized nodes                                   *)
TrimmedEdgesWithinReturnedNodes ==
    Returned =>
       /\ ~cfg.no_trimming => EdgeEndpoints \subseteq Range(all_nodes)
       /\ cfg.no_trimming =>
            /\ (EdgeEndpoints \ Range(all_nodes)) \subseteq SynthesizedTargets
            /\ SynthesizedTargets \cap Range(all_nodes) = {}

SynthesizedEndpointNotReturned ==
    /\ Returned
    /\ cfg.no_trimming
    /\ \E i \in 1..Len(edges) :
          /\ edges[i].node1 \notin Range(all_nodes)
          /\ nodes[edges[i].node1].implicit


-----------------------------------------------------------------------------
(* The placeholder of the anonymous callable a factory returns *)

ThroughLambdaFactory(lk) == lk.synth = "lambda"

(* n is a placeholder of the factory f: a node '<f>::<lambda>' in the group *)
(* of f                                                                     *)
IsPlaceholderOf(n, f) ==
    /\ nodes[n].token = nodes[f].token \o "::<lambda>"
    /\ nodes[n].parent = nodes[f].parent

PlaceholdersIn(g, f) == {n \in Range(groups[g].nodes) : IsPlaceholderOf(n, f)}

SameFactory(a, b) ==
    /\ nodes[a.target].token = nodes[b.target].token
    /\ nodes[a.target].parent = nodes[b.target].parent

(* C29: all calls that resolve through one lambda-returning factory resolve *)
(* to one placeholder node, and the group of the factory holds at most one  *)
(* node '<factory>::<lambda>'                                               *)
C29_OnePlaceholderPerFactory ==
    /\ \A i, j \in 1..Len(links) :
          (ThroughLambdaFactory(links[i]) /\ ThroughLambdaFactory(links[j])
             /\ SameFactory(links[i], links[j]))
            => links[i].target = links[j].target
    /\ \A f \in 1..Len(nodes) :
          nodes[f].returns_lambda
            => Cardinality(PlaceholdersIn(nodes[f].parent, f)) <= 1

(* every call through a lambda-returning factory gets a placeholder of its  *)
(* own, which is a placeholder of that factory                              *)
OnePlaceholderPerCall ==
    \A i \in 1..Len(links) :
       ThroughLambdaFactory(links[i])
         => /\ \A j \in 1..Len(links) :
                 (ThroughLambdaFactory(links[j]) /\ i # j)
                    => links[i].target # links[j].target
            /\ \E f \in 1..Len(nodes) :
                 /\ nodes[f].returns_lambda
                 /\ nodes[f].token = links[i].call.factory_call
                 /\ IsPlaceholderOf(links[i].target, f)

(* three calls through make in two functions, three placeholders in the     *)
(* file group                                                               *)
ThreePlaceholders ==
    \E f \in 1..Len(nodes) :
       /\ nodes[f].returns_lambda
       /\ Cardinality(PlaceholdersIn(nodes[f].parent, f)) = 3
       /\ Cardinality({i \in 1..Len(links) : ThroughLambdaFactory(links[i])}) = 3


-----------------------------------------------------------------------------
(* The label of an edge whose call was resolved through super *)

ResolvedViaSuper(lk) ==
    /\ lk.strat \in {"super", "unknown_super"}
    /\ ~lk.bad
    /\ lk.node_b # 0
    /\ lk.edge # 0

(* the alias label of the edge of a link, "" when none is set *)
AliasOf(lk) ==
    IF cfg.alias_labels THEN AliasLabel(CurS, lk.call, lk.node_a, lk.node_b, "") ELSE ""

(* C30: the edge of a call resolved via super is labelled 'via super' when  *)
(* no alias label was set for it and '<alias label> (via super)' when one   *)
(* was, so that 'via super' occurs once in the label                        *)
C30_ViaSuperOnce ==
    \A i \in 1..Len(links) :
       ResolvedViaSuper(links[i])
         => links[i].label = (IF AliasOf(links[i]) = "" THEN "via super"
                              ELSE AliasOf(links[i]) \o " (via super)")

(* with no alias label the annotation is there twice *)
ViaSuperTwice ==
    \A i \in 1..Len(links) :
       (ResolvedViaSuper(links[i]) /\ AliasOf(links[i]) = "")
         => links[i].label = "via super (via super)"

SuperEdgeLabelled ==
    \E i \in 1..Len(links) :
       /\ ResolvedViaSuper(links[i])
       /\ edges[links[i].edge].label = "via super (via super)"

====
